---------------------------- MODULE Spec2Model ----------------------------
(***************************************************************************)
(* Blockchain-Simulation: the Mining Engine (mining.py), the workload      *)
(* generator (wallet.py), the Network Topology (network.py) and the        *)
(* Simulation Orchestrator (simulator.py).                                 *)
(*                                                                         *)
(* Conventions                                                             *)
(*  - simulated time is counted in tenths of a second, so that            *)
(*    random.uniform(0.8, 1.2) * blocktime is an integer for the block     *)
(*    times used (300.0 s is 3000, max(1.0, ...) is max(10, ...));         *)
(*  - Python floats that are divided or multiplied (reward, difficulty)    *)
(*    are exact rationals <<numerator, denominator>>;                      *)
(*  - f"block_{k}", f"tx_{i}", f"wallet_{i}", f"miner_{i}" are the pairs   *)
(*    <<"block", k>>, <<"tx", i>>, <<"wallet", i>>, <<"miner", i>>;        *)
(*  - sha256 over the four hashed fields is the tuple of those fields,     *)
(*    the previous hash entering by its digest (never empty, and of one    *)
(*    width however long the chain is); "genesis" is <<"genesis">>;        *)
(*  - None / 0 for config.halving and config.blocks is 0.                  *)
(* The specifications share the variables:                                 *)
(*   Spec / LiveSpec  the single-threaded orchestrator run,                *)
(*   SpecConc         miner actors running Miner.mine_block concurrently,  *)
(*   SpecDiff         MiningManager._adjust_difficulty over window means,  *)
(*   SpecNet          NetworkManager: broadcast, partition and heal,       *)
(*   SpecSubmit       threads calling submit_block, step by lock step,     *)
(*   SpecFail         the orchestrator run with a block callback that      *)
(*                    raises,                                              *)
(*   SpecFee          FeeCalculator: update_network_conditions and         *)
(*                    calculate_fee,                                       *)
(*   SpecCond         the orchestrator run with the wall clock passing,    *)
(*   SpecLong         one miner's chain past the 2016th block,             *)
(*   SpecEnq          concurrent miners while transactions are enqueued,   *)
(*   SpecStop         the orchestrator run with stop() inside an           *)
(*                    iteration,                                           *)
(*   SpecAttempt      the orchestrator run over short and long block       *)
(*                    times,                                               *)
(*   SpecWallet       Wallet.add_balance, subtract_balance and             *)
(*                    WalletManager.transfer_balance,                      *)
(*   SpecRestart      start() called again after the loop has ended,       *)
(*   SpecPrint        the orchestrator run with small print intervals.     *)
(***************************************************************************)
EXTENDS Integers, Sequences, FiniteSets, TLC

VARIABLES
    cfg,                 \* SimulationConfig
    pc,                  \* position of the orchestrator: idle, generating, loop, mine, stopped
    exit_by,             \* how _simulation_loop was left: none, terminate, flag, interrupt, exception
    running,             \* BlockchainSimulator.running
    wm_running,          \* WalletManager.running
    gen_i,               \* loop index i of start_transaction_generation
    miner_running,       \* Miner.running, per miner index
    miner_blocks_mined,  \* Miner.blocks_mined, per miner index
    blocks,              \* MiningManager.blocks
    block_counter,       \* MiningManager.block_counter
    transaction_pool,    \* MiningManager.transaction_pool
    block_reward,        \* MiningManager.block_reward
    current_difficulty,  \* MiningManager.current_difficulty
    last_block_time,     \* MiningManager.last_block_time
    last_block_hash,     \* MiningManager.last_block_hash
    simulated_time,      \* MiningManager.simulated_time
    blocks_mined,        \* BlockchainSimulator.blocks_mined
    total_coins,         \* BlockchainSimulator.total_coins
    wallets,             \* WalletManager.wallets
    mpc,                 \* SpecConc: position of each miner actor inside mine_block
    mlocal,              \* SpecConc: locals of each miner actor (transactions, block_id, block)
    old_difficulty,      \* SpecDiff: local old_difficulty of the last _adjust_difficulty
    adjust_count,        \* SpecDiff: number of completed adjustment windows
    node_count,          \* NetworkManager.node_count
    neighbor_count,      \* NetworkManager.neighbor_count
    neighbors,           \* BlockchainNode.neighbors, per node index
    saved_edges,         \* the neighbour lists before the last partition
    stored_blocks,       \* BlockchainNode.stored_blocks, per node index
    network_stats,       \* NetworkStats
    net_op,              \* the last network operation and what it returned
    lock,                \* SpecSubmit: holder of MiningManager.lock
    spc,                 \* SpecSubmit: position of each caller inside submit_block
    slocal,              \* SpecSubmit: the block each caller submits, and what it got back
    callbacks,           \* SpecSubmit: blocks the block callback was invoked for
    fee_calc,            \* FeeCalculator: congestion_multiplier, block_utilization
    fee_call,            \* SpecFee: the last calculate_fee calls and their results
    conditions,          \* BlockchainSimulator.network_congestion, block_utilization
    wall_clock,          \* time.time(), in tenths of a second since construction
    last_network_update, \* _simulation_loop's local last_network_update
    update_sim_time,     \* simulated time when last_network_update was last set
    summary_lines,       \* periodic summary lines printed by _print_summary so far
    final_lines,         \* final summary lines printed by _print_final_summary so far
    wallet_call          \* SpecWallet: the last wallet operation and what it returned

vars == <<cfg, pc, exit_by, running, wm_running, gen_i, miner_running,
          miner_blocks_mined, blocks, block_counter, transaction_pool,
          block_reward, current_difficulty, last_block_time, last_block_hash,
          simulated_time, blocks_mined, total_coins, wallets, mpc, mlocal,
          old_difficulty, adjust_count, node_count, neighbor_count, neighbors,
          saved_edges, stored_blocks, network_stats, net_op, lock, spc, slocal,
          callbacks, fee_calc, fee_call, conditions, wall_clock, last_network_update,
          update_sim_time, summary_lines, final_lines, wallet_call>>

orchVars == <<pc, exit_by, final_lines, running, wm_running, gen_i, blocks_mined, total_coins,
             summary_lines, simulated_time>>
engineVars == <<blocks, block_counter, transaction_pool, block_reward, current_difficulty,
                last_block_time, last_block_hash, miner_blocks_mined, wallets>>
concVars == <<mpc, mlocal>>
diffVars == <<old_difficulty, adjust_count>>
netCfgVars == <<node_count, neighbor_count, neighbors, saved_edges>>
netVars == <<stored_blocks, network_stats, net_op>>
lockVars == <<lock, spc, slocal, callbacks>>
feeVars == <<fee_calc, fee_call>>
condVars == <<conditions, wall_clock, last_network_update, update_sim_time>>

-----------------------------------------------------------------------------
(* Bounds of the model *)
MaxMiners == 2
MaxTarget == 2
MaxWallets == 2
MaxTxPerWallet == 2
MaxBlocksize == 2
MaxHalving == 2
MaxSkips == 1
MaxAdjustments == 2
MaxNodes == 4
MaxNeighbors == 2
MaxNetBlocks == 2
MaxNetOps == 3
MaxCallers == 2
MaxSubmitIds == 2

(* Program constants *)
HEADER_SIZE == 1024
TRANSACTION_SIZE == 256
DIFFICULTY_ADJUSTMENT_BLOCKS == 2016
SKIP_TIME == 3000

\* "if current_time - last_network_update >= 600.0", in tenths of a second
UPDATE_INTERVAL == 6000

\* self.mining_manager.blocks[-10:]
RECENT_BLOCKS == 10

-----------------------------------------------------------------------------
(* Exact arithmetic for Python floats *)
Max2(a, b) == IF a >= b THEN a ELSE b
Min2(a, b) == IF a <= b THEN a ELSE b
Abs(n) == IF n < 0 THEN -n ELSE n

\* The operands are bound as function arguments, so each is evaluated once.
Rats == Int \X Nat

GCD[a \in Nat, b \in Nat] == IF b = 0 THEN a ELSE GCD[b, a % b]

RatOf[n \in Int, d \in Nat] == <<n \div GCD[Abs(n), d], d \div GCD[Abs(n), d]>>
\* common factors are divided out before the products are formed
RMulOf[a \in Rats, b \in Rats] ==
    RatOf[(a[1] \div GCD[Abs(a[1]), b[2]]) * (b[1] \div GCD[Abs(b[1]), a[2]]),
          (a[2] \div GCD[Abs(b[1]), a[2]]) * (b[2] \div GCD[Abs(a[1]), b[2]])]
RAddOf[a \in Rats, b \in Rats] == RatOf[a[1] * b[2] + b[1] * a[2], a[2] * b[2]]
RDivOf[a \in Rats, b \in Rats] == RMulOf[a, <<b[2], b[1]>>]
RLeOf[a \in Rats, b \in Rats] ==
    a[1] * (b[2] \div GCD[a[2], b[2]]) <= b[1] * (a[2] \div GCD[a[2], b[2]])
RMaxOf[a \in Rats, b \in Rats] == IF RLeOf[b, a] THEN a ELSE b
RMinOf[a \in Rats, b \in Rats] == IF RLeOf[a, b] THEN a ELSE b

Rat(n, d) == RatOf[n, d]
RInt(n) == <<n, 1>>
RMul(a, b) == RMulOf[a, b]
RAdd(a, b) == RAddOf[a, b]
RDiv(a, b) == RDivOf[a, b]
RLe(a, b) == RLeOf[a, b]
RLt(a, b) == ~RLeOf[b, a]
RMax(a, b) == RMaxOf[a, b]
RMin(a, b) == RMinOf[a, b]

RECURSIVE Pow2(_)
Pow2(n) == IF n = 0 THEN 1 ELSE 2 * Pow2(n - 1)

CeilDiv(a, b) == (a + b - 1) \div b

-----------------------------------------------------------------------------
(* Configuration: SimulationConfig, config.py *)
BlockTimes == {10, 6000}
Rewards == {RInt(50)}
Hashrates == {1000}
VarianceTenths == {8, 12}
InitialBalances == {10, 100}

BaseDifficulty(c) == Rat(c.blocktime * c.miners * c.hashrate, 10)

\* difficulty = args.difficulty or (args.blocktime * args.miners * args.hashrate)
DefaultOr(difficulty, base) == IF difficulty[1] = 0 THEN base ELSE difficulty

\* parser.add_argument('--print', type=int, default=144)
DEFAULT_PRINT_INTERVAL == 144

MakeConfig(m, bt, bs, h, n, w, t, hr, r, d) ==
    LET c0 == [miners |-> m, blocktime |-> bt, blocksize |-> bs, halving |-> h,
               blocks |-> n, wallets |-> w, transactions |-> t, hashrate |-> hr,
               reward |-> r]
    IN [miners |-> m, blocktime |-> bt, blocksize |-> bs, halving |-> h,
        blocks |-> n, wallets |-> w, transactions |-> t, hashrate |-> hr,
        reward |-> r, difficulty |-> DefaultOr(d, BaseDifficulty(c0)),
        print_interval |-> DEFAULT_PRINT_INTERVAL]

MinerIds(c) == 0 .. (c.miners - 1)
MinerName(i) == <<"miner", i>>
BlockId(k) == <<"block", k>>
TxId(i) == <<"tx", i>>
WalletId(i) == <<"wallet", i>>

\* the chain can grow without a limit when neither termination condition is configured
ChainCap == Max2(MaxTarget, MaxWallets * MaxTxPerWallet)

-----------------------------------------------------------------------------
(* models.py *)
\* the str "genesis" that stands for the hash before the first block; a hash
\* is a tuple, as the empty str is the empty tuple
Genesis == <<"genesis">>

\* a hexdigest has one width however long the hashed text was: of a previous
\* hash, itself a digest, the fields that tell its block apart are kept
Digest(hash) == IF Len(hash) < 4 THEN hash ELSE <<hash[1], hash[2], hash[4]>>

\* Block.calculate_hash: sha256 of f"{block_id}{timestamp}{previous_hash}{miner_id}"
CalculateHash(block_id, timestamp, previous_hash, miner_id) ==
    <<block_id, timestamp, Digest(previous_hash), miner_id>>

\* Wallet(wallet_id, initial_balance)
NewWallet(balance) ==
    [balance |-> balance, transactions_sent |-> 0, transactions_received |-> 0,
     total_sent |-> 0, total_received |-> 0, total_fees |-> RInt(0)]

\* Wallet.add_balance
AddBalance(w, amount) ==
    [w EXCEPT !.balance = @ + amount,
              !.total_received = @ + amount,
              !.transactions_received = @ + 1]

\* variant of subtract_balance without the test "self.balance >= total_deduction"
SubtractBalanceUnchecked(w, amount, fee) ==
    [ok |-> TRUE,
     w |-> [w EXCEPT !.balance = @ - (amount + fee),
                     !.total_sent = @ + amount,
                     !.total_fees = RAdd(@, RInt(fee)),
                     !.transactions_sent = @ + 1]]

\* Wallet.subtract_balance: the return value and the wallet afterwards
SubtractBalance(w, amount, fee) ==
    LET total_deduction == amount + fee
    IN IF w.balance >= total_deduction
       THEN [ok |-> TRUE,
             w |-> [w EXCEPT !.balance = @ - total_deduction,
                             !.total_sent = @ + amount,
                             !.total_fees = RAdd(@, RInt(fee)),
                             !.transactions_sent = @ + 1]]
       ELSE [ok |-> FALSE, w |-> w]

-----------------------------------------------------------------------------
(* wallet.py *)
\* variant of the generation count that forgets the per-wallet count
TotalTransactionsPerWalletOnly(c) == c.wallets

\* total_transactions = len(self.wallets) * self.transaction_count
TotalTransactions(c) == c.wallets * c.transactions

\* variant of the Transaction of iteration i whose wallet index is i mod transactions
MakeTransactionByRemainder(i, c) ==
    LET wallet_idx == i % c.transactions
    IN [tx_id |-> TxId(i),
        sender |-> WalletId(wallet_idx),
        recipient |-> WalletId((wallet_idx + 1) % c.wallets),
        amount |-> 1,
        fee |-> Rat(1, 100),
        status |-> "pending",
        priority |-> "normal"]

\* the Transaction built in iteration i of start_transaction_generation
MakeTransaction(i, c) ==
    LET wallet_idx == i \div c.transactions
    IN [tx_id |-> TxId(i),
        sender |-> WalletId(wallet_idx),
        recipient |-> WalletId((wallet_idx + 1) % c.wallets),
        amount |-> 1,
        fee |-> Rat(1, 100),
        status |-> "pending",
        priority |-> "normal"]

\* variant of process_confirmed_transaction that credits the sender's wallet
CreditWalletsSender(ws, tx) ==
    IF tx.sender \in DOMAIN ws
    THEN [ws EXCEPT ![tx.sender] = AddBalance(@, tx.amount)]
    ELSE ws

\* WalletManager.process_confirmed_transaction, on the wallet map
CreditWallets(ws, tx) ==
    IF tx.recipient \in DOMAIN ws
    THEN [ws EXCEPT ![tx.recipient] = AddBalance(@, tx.amount)]
    ELSE ws

RECURSIVE CreditAll(_, _)
CreditAll(ws, txs) ==
    IF txs = <<>> THEN ws ELSE CreditAll(CreditWallets(ws, Head(txs)), Tail(txs))

\* WalletManager.process_confirmed_transaction, on the transaction object
Confirm(tx) == [tx EXCEPT !.status = "confirmed"]

-----------------------------------------------------------------------------
(* mining.py *)
\* variant of get_next_block_id that advances the counter by two
NextCounterSkip(counter) == counter + 2

\* MiningManager.get_next_block_id: self.block_counter += 1
NextCounter(counter) == counter + 1

\* variant of the expected mining time without "max(1.0, min(..))"
ExpectedMiningTimeUnclamped(target_block_time, v) == (target_block_time * v) \div 10

\* variant of the expected mining time that takes no time at all
ExpectedMiningTimeNone(target_block_time, v) == 0

\* Miner._calculate_expected_mining_time, v the draw of random.uniform(0.8, 1.2) in tenths
ExpectedMiningTime(target_block_time, v) ==
    Max2(10, Min2((target_block_time * v) \div 10, target_block_time * 2))

\* variant of get_transactions_for_block that pops from the tail of the pool
RECURSIVE PopTailLoop(_, _, _)
PopTailLoop(n, pool, acc) ==
    IF n <= 0 \/ pool = <<>> THEN [taken |-> acc, rest |-> pool]
    ELSE PopTailLoop(n - 1, SubSeq(pool, 1, Len(pool) - 1), Append(acc, pool[Len(pool)]))

GetTransactionsFromTail(pool, blocksize) ==
    PopTailLoop(Min2(blocksize, Len(pool)), pool, <<>>)

\* variant of the loop that stops after the first transaction
PopLoopOnce(n, pool, acc) ==
    IF n <= 0 \/ pool = <<>> THEN [taken |-> acc, rest |-> pool]
    ELSE [taken |-> Append(acc, Head(pool)), rest |-> Tail(pool)]

\* the loop of get_transactions_for_block: range(max_tx), pop(0), append
RECURSIVE PopLoop(_, _, _)
PopLoop(n, pool, acc) ==
    IF n <= 0 THEN [taken |-> acc, rest |-> pool]
    ELSE IF pool # <<>>
         THEN PopLoop(n - 1, Tail(pool), Append(acc, Head(pool)))
         ELSE PopLoop(n - 1, pool, acc)

\* variant of get_transactions_for_block that reads the transactions without
\* removing them from the pool
GetTransactionsKeepingPool(pool, blocksize) ==
    [taken |-> SubSeq(pool, 1, Min2(blocksize, Len(pool))), rest |-> pool]

\* MiningManager.get_transactions_for_block
GetTransactionsForBlock(pool, blocksize) ==
    PopLoop(Min2(blocksize, Len(pool)), pool, <<>>)

\* variant of block construction whose hash is taken before the mining time is
\* added to the timestamp
CreateBlockStaleHash(miner, current_sim_time, mining_time, transactions, counter, reward, last_hash, difficulty) ==
    LET block_id == BlockId(counter)
        timestamp == current_sim_time + mining_time
    IN [block_id |-> block_id,
        timestamp |-> timestamp,
        time_since_last |-> mining_time,
        transaction_count |-> Len(transactions),
        size |-> HEADER_SIZE + Len(transactions) * TRANSACTION_SIZE,
        transactions |-> [k \in 1 .. Len(transactions) |-> transactions[k].tx_id],
        miner_reward |-> reward,
        previous_hash |-> last_hash,
        miner_id |-> MinerName(miner),
        difficulty |-> difficulty,
        hash |-> CalculateHash(block_id, current_sim_time, last_hash, MinerName(miner)),
        transaction_objects |-> transactions]

\* Miner._create_block
CreateBlock(miner, current_sim_time, mining_time, transactions, counter, reward, last_hash, difficulty) ==
    LET block_id == BlockId(counter)
        timestamp == current_sim_time + mining_time
    IN [block_id |-> block_id,
        timestamp |-> timestamp,
        time_since_last |-> mining_time,
        transaction_count |-> Len(transactions),
        size |-> HEADER_SIZE + Len(transactions) * TRANSACTION_SIZE,
        transactions |-> [k \in 1 .. Len(transactions) |-> transactions[k].tx_id],
        miner_reward |-> reward,
        previous_hash |-> last_hash,
        miner_id |-> MinerName(miner),
        difficulty |-> difficulty,
        hash |-> CalculateHash(block_id, timestamp, last_hash, MinerName(miner)),
        transaction_objects |-> transactions]

\* an empty str (block_id, hash) is the empty tuple
Empty == <<>>

\* variant of _validate_block without the transaction-count test
ValidateBlockAnySize(chain, block, blocksize) ==
    /\ ~(block.block_id = Empty \/ block.hash = Empty)
    /\ \A k \in 1 .. Len(chain) : chain[k].block_id # block.block_id

\* threading.Lock: the value of MiningManager.lock when nobody holds it, else
\* the caller that holds it
Free == 0

\* variant of the lock that lets every caller in
LockFreeAlways(l) == TRUE

\* "with self.lock" can be entered: the lock is not reentrant, so not even by
\* the caller that holds it
LockFree(l) == l = Free

\* MiningManager._validate_block
ValidateBlock(chain, block, blocksize) ==
    /\ ~(block.block_id = Empty \/ block.hash = Empty)
    /\ \A k \in 1 .. Len(chain) : chain[k].block_id # block.block_id
    /\ ~(block.transaction_count > blocksize)

\* the sum of time_since_last over chain[lo .. hi], halving the range so that
\* a window of 2016 blocks nests eleven deep
RECURSIVE SumTimeSinceLastIn(_, _, _)
SumTimeSinceLastIn(chain, lo, hi) ==
    IF lo > hi THEN 0
    ELSE IF lo = hi THEN chain[lo].time_since_last
    ELSE SumTimeSinceLastIn(chain, lo, (lo + hi) \div 2)
         + SumTimeSinceLastIn(chain, (lo + hi) \div 2 + 1, hi)

SumTimeSinceLast(chain) == SumTimeSinceLastIn(chain, 1, Len(chain))

\* variant of _adjust_difficulty with the 2x limit the comment mentions
AdjustDifficultyTwofold(difficulty, window_sum, c) ==
    LET actual_avg_time == Rat(window_sum, DIFFICULTY_ADJUSTMENT_BLOCKS)
        target_time == RInt(c.blocktime)
        difficulty_change == RMax(Rat(1, 2), RMin(RInt(2), RDiv(target_time, actual_avg_time)))
        adjusted == RMul(difficulty, difficulty_change)
        base_difficulty == BaseDifficulty(c)
        min_difficulty == RMul(base_difficulty, Rat(1, 10))
        max_difficulty == RMul(base_difficulty, RInt(5))
    IN RMax(min_difficulty, RMin(max_difficulty, adjusted))

\* variant of _adjust_difficulty without the final clamp to the base range
AdjustDifficultyUnclamped(difficulty, window_sum, c) ==
    LET actual_avg_time == Rat(window_sum, DIFFICULTY_ADJUSTMENT_BLOCKS)
        target_time == RInt(c.blocktime)
        difficulty_change == RMax(Rat(67, 100), RMin(Rat(3, 2), RDiv(target_time, actual_avg_time)))
    IN RMul(difficulty, difficulty_change)

\* the arithmetic of MiningManager._adjust_difficulty, window_sum the sum of
\* time_since_last over recent_blocks (its mean is window_sum / 2016)
AdjustDifficulty(difficulty, window_sum, c) ==
    LET actual_avg_time == Rat(window_sum, DIFFICULTY_ADJUSTMENT_BLOCKS)
        target_time == RInt(c.blocktime)
        max_change == Rat(3, 2)
        difficulty_change == RMax(Rat(67, 100), RMin(max_change, RDiv(target_time, actual_avg_time)))
        adjusted == RMul(difficulty, difficulty_change)
        base_difficulty == BaseDifficulty(c)
        min_difficulty == RMul(base_difficulty, Rat(1, 10))
        max_difficulty == RMul(base_difficulty, RInt(5))
    IN RMax(min_difficulty, RMin(max_difficulty, adjusted))

\* variant of _halve_reward that divides by four
HalveRewardToQuarter(reward) == RDiv(reward, RInt(4))

\* MiningManager._halve_reward
HalveReward(reward) == RDiv(reward, RInt(2))

\* variant of the halving test that is one block early
HalvingDueEarly(halving, n) == halving # 0 /\ (n - 1) % halving = 0 /\ n > 0

\* submit_block's test "self.halving_blocks and len(self.blocks) % self.halving_blocks == 0"
HalvingDue(halving, n) == halving # 0 /\ n % halving = 0 /\ n > 0

\* submit_block's test for a difficulty adjustment
AdjustmentDue(n) == n % DIFFICULTY_ADJUSTMENT_BLOCKS = 0 /\ n > 0

-----------------------------------------------------------------------------
(* wallet.py: FeeCalculator. The float products are exact rationals here;    *)
(* float multiplication by a non-negative factor and max/min keep every      *)
(* order between two results that the exact values have.                     *)
MIN_FEE == Rat(1, 1000)
MAX_FEE == Rat(1, 10)
FEE_RATE == Rat(1, 100)

Priorities == {"low", "normal", "high", "urgent", "other"}

\* variant of the priority table whose 'high' multiplier is below 'normal'
PriorityMultiplierLowHigh(priority) ==
    CASE priority = "low" -> Rat(1, 2)
      [] priority = "normal" -> RInt(1)
      [] priority = "high" -> Rat(1, 5)
      [] priority = "urgent" -> RInt(5)
      [] OTHER -> RInt(1)

\* priority_multipliers.get(priority, 1.0)
PriorityMultiplier(priority) ==
    CASE priority = "low" -> Rat(1, 2)
      [] priority = "normal" -> RInt(1)
      [] priority = "high" -> RInt(2)
      [] priority = "urgent" -> RInt(5)
      [] OTHER -> RInt(1)

\* calculate_fee up to "Apply min/max constraints"
RawFee(fc, amount, priority, network_congestion) ==
    LET base_fee == RMul(amount, FEE_RATE)
        priority_mult == PriorityMultiplier(priority)
        congestion_mult == RAdd(RInt(1), RMul(network_congestion, RInt(2)))
        utilization_factor == RAdd(RInt(1), RMul(fc.block_utilization, Rat(1, 2)))
    IN RMul(RMul(RMul(base_fee, priority_mult), congestion_mult), utilization_factor)

\* variant of calculate_fee without the min/max constraints
CalculateFeeUnclamped(fc, amount, priority, network_congestion) ==
    RawFee(fc, amount, priority, network_congestion)

\* FeeCalculator.calculate_fee
CalculateFee(fc, amount, priority, network_congestion) ==
    RMax(MIN_FEE, RMin(RawFee(fc, amount, priority, network_congestion), MAX_FEE))

\* FeeCalculator.update_network_conditions
UpdateFeeConditions(fc, congestion, block_utilization) ==
    [congestion_multiplier |-> RAdd(RInt(1), congestion),
     block_utilization |-> RMax(RInt(0), RMin(RInt(1), block_utilization))]

-----------------------------------------------------------------------------
(* network.py *)
NodeIds(n) == 0 .. (n - 1)
NoNode == 0 - 1
Range(list) == {list[k] : k \in 1 .. Len(list)}

\* BlockchainNode.add_neighbor, on the neighbour lists
AddNeighbor(nbrs, node, neighbor) ==
    IF neighbor \notin Range(nbrs[node]) /\ neighbor # node
    THEN [j \in DOMAIN nbrs |-> IF j = node THEN Append(nbrs[j], neighbor) ELSE nbrs[j]]
    ELSE nbrs

\* list.remove: the first occurrence goes
RemoveFirst(list, x) ==
    IF x \notin Range(list) THEN list
    ELSE LET k == CHOOSE j \in 1 .. Len(list) :
                      list[j] = x /\ \A h \in 1 .. (j - 1) : list[h] # x
         IN SubSeq(list, 1, k - 1) \o SubSeq(list, k + 1, Len(list))

\* BlockchainNode.remove_neighbor, on the neighbour lists
RemoveNeighbor(nbrs, node, neighbor) ==
    IF neighbor \in Range(nbrs[node])
    THEN [j \in DOMAIN nbrs |-> IF j = node THEN RemoveFirst(nbrs[j], neighbor) ELSE nbrs[j]]
    ELSE nbrs

\* variant of the connection loop without "neighbor.add_neighbor(node)"
RECURSIVE ConnectSelectedOneWay(_, _, _)
ConnectSelectedOneWay(nbrs, node, selected) ==
    IF selected = {} THEN nbrs
    ELSE LET neighbor == CHOOSE x \in selected : \A y \in selected : x <= y
         IN ConnectSelectedOneWay(AddNeighbor(nbrs, node, neighbor), node,
                                  selected \ {neighbor})

\* _connect_nodes: "for neighbor in selected_neighbors", the sample taken in
\* increasing order
RECURSIVE ConnectSelected(_, _, _)
ConnectSelected(nbrs, node, selected) ==
    IF selected = {} THEN nbrs
    ELSE LET neighbor == CHOOSE x \in selected : \A y \in selected : x <= y
         IN ConnectSelected(AddNeighbor(AddNeighbor(nbrs, node, neighbor), neighbor, node),
                            node, selected \ {neighbor})

\* NetworkManager._connect_nodes from node i on: every outcome of random.sample
RECURSIVE ConnectNodesFrom(_, _, _, _)
ConnectNodesFrom(i, n, k, nbrs) ==
    IF i >= n THEN {nbrs}
    ELSE LET available_neighbors == {j \in NodeIds(n) : j # i /\ j \notin Range(nbrs[i])}
             num_neighbors == Min2(k, Cardinality(available_neighbors))
         IN IF num_neighbors > 0
            THEN UNION {ConnectNodesFrom(i + 1, n, k, ConnectSelected(nbrs, i, selected)) :
                          selected \in {T \in SUBSET available_neighbors :
                                           Cardinality(T) = num_neighbors}}
            ELSE ConnectNodesFrom(i + 1, n, k, nbrs)

ConnectNodes(n, k, nbrs) == ConnectNodesFrom(0, n, k, nbrs)

\* simulate_network_partition: the two loops over partition_nodes and other_nodes
RECURSIVE RemoveBetween(_, _)
RemoveBetween(nbrs, pairs) ==
    IF pairs = {} THEN nbrs
    ELSE LET pr == CHOOSE x \in pairs : TRUE
         IN RemoveBetween(RemoveNeighbor(RemoveNeighbor(nbrs, pr[1], pr[2]), pr[2], pr[1]),
                          pairs \ {pr})

\* NetworkManager.simulate_network_partition with the sample partition_nodes
SimulateNetworkPartition(nbrs, n, partition_size, partition_nodes) ==
    IF partition_size >= n THEN nbrs
    ELSE RemoveBetween(nbrs, partition_nodes \X (NodeIds(n) \ partition_nodes))

\* NetworkStats.update_propagation_stats (the running average stays at the fixed 0.1)
UpdatePropagationStats(stats, block_size) ==
    [total_blocks_propagated |-> stats.total_blocks_propagated + 1,
     total_network_data |-> stats.total_network_data + block_size,
     total_io_requests |-> stats.total_io_requests + 1]

\* BlockchainNode._broadcast_block: one statistics update per neighbour, and no
\* call of the neighbour's _receive_block
RECURSIVE NodeBroadcastBlock(_, _, _)
NodeBroadcastBlock(stats, neighbor_list, block) ==
    IF neighbor_list = <<>> THEN stats
    ELSE NodeBroadcastBlock(UpdatePropagationStats(stats, block.size), Tail(neighbor_list), block)

\* variant of store_block without the test "block.block_id not in stored_blocks"
StoreBlockUnchecked(net, node, block) ==
    [net EXCEPT !.stored_blocks[node] = @ \cup {block.block_id},
                !.network_stats = NodeBroadcastBlock(@, net.neighbors[node], block),
                !.net_op = [@ EXCEPT !.op = "broadcast", !.node = node,
                                     !.block_id = block.block_id, !.result = TRUE]]

\* BlockchainNode.store_block on the network state net
StoreBlock(net, node, block) ==
    IF block.block_id \notin net.stored_blocks[node]
    THEN [net EXCEPT !.stored_blocks[node] = @ \cup {block.block_id},
                     !.network_stats = NodeBroadcastBlock(@, net.neighbors[node], block),
                     !.net_op = [@ EXCEPT !.op = "broadcast", !.node = node,
                                          !.block_id = block.block_id, !.result = TRUE]]
    ELSE [net EXCEPT !.net_op = [@ EXCEPT !.op = "broadcast", !.node = node,
                                          !.block_id = block.block_id, !.result = FALSE]]

\* NetworkManager.broadcast_block with start_node the node random.choice picked
BroadcastBlock(net, block, start_node) ==
    IF start_node # NoNode THEN StoreBlock(net, start_node, block) ELSE net

\* the nodes random.choice(self.nodes) can pick
StartNodes(n) == IF n > 0 THEN NodeIds(n) ELSE {NoNode}

\* net_op before any operation; fresh: the topology is the one build made
\* count: the number of network operations made on their own
NoOp ==
    [op |-> "none", node |-> NoNode, block_id |-> <<>>, result |-> FALSE, fresh |-> TRUE,
     count |-> 0]
NoStats == [total_blocks_propagated |-> 0, total_network_data |-> 0, total_io_requests |-> 0]

-----------------------------------------------------------------------------
(* simulator.py: the block callback *)
\* BlockchainSimulator._on_block_mined on the block: every attached transaction
\* object is processed (the fallback by id runs over an empty list when the
\* block carries no objects)
OnBlockMinedBlock(block) ==
    [block EXCEPT !.transaction_objects =
        [k \in 1 .. Len(block.transaction_objects) |-> Confirm(block.transaction_objects[k])]]

\* BlockchainSimulator._on_block_mined on the wallet map
OnBlockMinedWallets(ws, block) == CreditAll(ws, block.transaction_objects)

-----------------------------------------------------------------------------
(* mining.py: submit_block as a function of the engine state *)
\* the state submit_block and the block callback work on; start_node is the
\* node random.choice picks inside broadcast_block
EngineWith(start_node) ==
    [blocks |-> blocks, last_block_time |-> last_block_time,
     last_block_hash |-> last_block_hash, miner_blocks_mined |-> miner_blocks_mined,
     current_difficulty |-> current_difficulty, block_reward |-> block_reward,
     wallets |-> wallets, neighbors |-> neighbors, stored_blocks |-> stored_blocks,
     network_stats |-> network_stats, net_op |-> net_op, start_node |-> start_node,
     ok |-> FALSE]

Engine == EngineWith(NoNode)

\* recent_blocks = self.blocks[-DIFFICULTY_ADJUSTMENT_BLOCKS:]
RecentBlocks(chain) ==
    SubSeq(chain, Max2(1, Len(chain) - DIFFICULTY_ADJUSTMENT_BLOCKS + 1), Len(chain))

\* Miner.update_stats, called for the miner _get_miner_by_id finds
UpdateStats(mined, miner) ==
    IF miner \in DOMAIN mined THEN [mined EXCEPT ![miner] = @ + 1] ELSE mined

\* variant of submit_block that adjusts the difficulty at every accepted block
AcceptBlockAdjustingAlways(e, block, miner, c) ==
    LET chain == Append(e.blocks, block)
        n == Len(chain)
        window_sum == SumTimeSinceLast(RecentBlocks(chain))
    IN [e EXCEPT !.blocks = chain,
                 !.last_block_time = block.timestamp,
                 !.last_block_hash = block.hash,
                 !.miner_blocks_mined = UpdateStats(@, miner),
                 !.current_difficulty = AdjustDifficulty(@, window_sum, c),
                 !.block_reward = IF HalvingDue(c.halving, n) THEN HalveReward(@) ELSE @,
                 !.ok = TRUE]

\* variant of submit_block that puts the block at the head of the chain
AcceptBlockAtHead(e, block, miner, c) ==
    LET chain == <<block>> \o e.blocks
        n == Len(chain)
        window_sum == SumTimeSinceLast(RecentBlocks(chain))
    IN [e EXCEPT !.blocks = chain,
                 !.last_block_time = block.timestamp,
                 !.last_block_hash = block.hash,
                 !.miner_blocks_mined = UpdateStats(@, miner),
                 !.current_difficulty =
                     IF AdjustmentDue(n) /\ ~(n < DIFFICULTY_ADJUSTMENT_BLOCKS)
                     THEN AdjustDifficulty(@, window_sum, c)
                     ELSE @,
                 !.block_reward = IF HalvingDue(c.halving, n) THEN HalveReward(@) ELSE @,
                 !.ok = TRUE]

\* variant of submit_block that leaves last_block_hash as it was
AcceptBlockKeepingTipHash(e, block, miner, c) ==
    LET chain == Append(e.blocks, block)
        n == Len(chain)
        window_sum == SumTimeSinceLast(RecentBlocks(chain))
    IN [e EXCEPT !.blocks = chain,
                 !.last_block_time = block.timestamp,
                 !.miner_blocks_mined = UpdateStats(@, miner),
                 !.current_difficulty =
                     IF AdjustmentDue(n) /\ ~(n < DIFFICULTY_ADJUSTMENT_BLOCKS)
                     THEN AdjustDifficulty(@, window_sum, c)
                     ELSE @,
                 !.block_reward = IF HalvingDue(c.halving, n) THEN HalveReward(@) ELSE @,
                 !.ok = TRUE]

\* submit_block from the append to the halving test; _adjust_difficulty
\* returns at once on a chain shorter than 2016 blocks
AcceptBlock(e, block, miner, c) ==
    LET chain == Append(e.blocks, block)
        n == Len(chain)
        window_sum == SumTimeSinceLast(RecentBlocks(chain))
    IN [e EXCEPT !.blocks = chain,
                 !.last_block_time = block.timestamp,
                 !.last_block_hash = block.hash,
                 !.miner_blocks_mined = UpdateStats(@, miner),
                 !.current_difficulty =
                     IF AdjustmentDue(n) /\ ~(n < DIFFICULTY_ADJUSTMENT_BLOCKS)
                     THEN AdjustDifficulty(@, window_sum, c)
                     ELSE @,
                 !.block_reward = IF HalvingDue(c.halving, n) THEN HalveReward(@) ELSE @,
                 !.ok = TRUE]

\* BlockchainSimulator._on_block_mined for a block that carries its transaction
\* objects (or no transactions); the block is the last one of the chain
OnBlockMined(e, block) ==
    LET net == BroadcastBlock(e, block, e.start_node)
    IN [net EXCEPT !.blocks[Len(e.blocks)] = OnBlockMinedBlock(block),
                   !.wallets = OnBlockMinedWallets(@, block)]

\* MiningManager.submit_block
SubmitBlock(e, block, miner, c) ==
    IF ~ValidateBlock(e.blocks, block, c.blocksize)
    THEN [e EXCEPT !.ok = FALSE]
    ELSE OnBlockMined(AcceptBlock(e, block, miner, c), block)

SetEngine(e) ==
    /\ blocks' = e.blocks
    /\ last_block_time' = e.last_block_time
    /\ last_block_hash' = e.last_block_hash
    /\ miner_blocks_mined' = e.miner_blocks_mined
    /\ current_difficulty' = e.current_difficulty
    /\ block_reward' = e.block_reward
    /\ wallets' = e.wallets
    /\ stored_blocks' = e.stored_blocks
    /\ network_stats' = e.network_stats
    /\ net_op' = e.net_op

-----------------------------------------------------------------------------
(* simulator.py: the orchestrator *)
ConfigSet ==
    {MakeConfig(m, bt, bs, h, n, w, t, hr, r, RInt(0)) :
        m \in 0 .. MaxMiners, bt \in BlockTimes, bs \in 1 .. MaxBlocksize,
        h \in 0 .. MaxHalving, n \in 0 .. MaxTarget, w \in 0 .. MaxWallets,
        t \in 0 .. MaxTxPerWallet, hr \in Hashrates, r \in Rewards}

\* WalletManager._create_wallets: the first wallet_count // 2 wallets are funded
WalletMaps(c) ==
    {[id \in {WalletId(i) : i \in 0 .. (c.wallets - 1)} |->
        NewWallet(IF id[2] < c.wallets \div 2 THEN b ELSE 0)] : b \in InitialBalances}

\* NetworkManager.__init__: the nodes are created and connected
InitNetwork(n, k) ==
    /\ node_count = n
    /\ neighbor_count = k
    /\ neighbors \in ConnectNodes(n, k, [i \in NodeIds(n) |-> <<>>])
    /\ saved_edges = [i \in NodeIds(n) |-> <<>>]
    /\ stored_blocks = [i \in NodeIds(n) |-> {}]
    /\ network_stats = NoStats
    /\ net_op = NoOp

\* FeeCalculator.__init__, and the simulator's network conditions at construction
NoFeeCall ==
    [made |-> FALSE, amount |-> RInt(0), network_congestion |-> RInt(0),
     fees |-> [p \in Priorities |-> RInt(0)]]

\* no wallet operation was called yet
NoWalletCall ==
    [op |-> "none", from |-> <<>>, to |-> <<>>, amount |-> 0, fee |-> 0, result |-> FALSE]

InitCond ==
    /\ fee_calc = [congestion_multiplier |-> RInt(1), block_utilization |-> Rat(1, 2)]
    /\ fee_call = NoFeeCall
    /\ conditions = [network_congestion |-> RInt(0), block_utilization |-> Rat(1, 2)]
    /\ wall_clock = 0
    /\ last_network_update = 0
    /\ update_sim_time = 0

\* MiningManager.lock is free and nobody is inside submit_block
InitLock ==
    /\ lock = Free
    /\ spc = <<>>
    /\ slocal = <<>>
    /\ callbacks = <<>>

InitEngine(c) ==
    /\ cfg = c
    /\ wallet_call = NoWalletCall
    /\ pc = "idle"
    /\ exit_by = "none"
    /\ final_lines = 0
    /\ running = FALSE
    /\ wm_running = FALSE
    /\ gen_i = 0
    /\ miner_running = [i \in MinerIds(c) |-> FALSE]
    /\ miner_blocks_mined = [i \in MinerIds(c) |-> 0]
    /\ blocks = <<>>
    /\ block_counter = 0
    /\ transaction_pool = <<>>
    /\ block_reward = c.reward
    /\ current_difficulty = c.difficulty
    /\ last_block_time = 0
    /\ last_block_hash = Genesis
    /\ simulated_time = 0
    /\ blocks_mined = 0
    /\ total_coins = RInt(0)
    /\ summary_lines = 0
    /\ wallets \in WalletMaps(c)
    /\ mpc = [i \in MinerIds(c) |-> "idle"]
    /\ mlocal = [i \in MinerIds(c) |-> <<>>]
    /\ old_difficulty = c.difficulty
    /\ adjust_count = 0

\* the orchestrator runs are explored with a network of a single node
InitWith(c) ==
    /\ InitEngine(c)
    /\ InitNetwork(1, 0)
    /\ InitLock
    /\ InitCond

Init == \E c \in ConfigSet : InitWith(c)

\* variant of stop that leaves the miners' running flags alone
StopFlagsKeepMiners ==
    /\ running' = FALSE
    /\ wm_running' = FALSE
    /\ UNCHANGED miner_running

\* BlockchainSimulator.stop, on the flags it clears
StopFlags ==
    /\ running' = FALSE
    /\ miner_running' = [i \in DOMAIN miner_running |-> FALSE]
    /\ wm_running' = FALSE

\* "last_network_update = time.time()" at the top of _simulation_loop;
\* update_sim_time remembers the simulated time of that moment
EnterLoop ==
    /\ last_network_update' = wall_clock
    /\ update_sim_time' = simulated_time

\* BlockchainSimulator.start up to the call of start_transaction_generation
Start ==
    /\ pc = "idle"
    /\ running' = TRUE
    /\ IF cfg.wallets > 0 /\ cfg.transactions > 0
       THEN \* start_transaction_generation returns at once when already running
            /\ wm_running' = TRUE
            /\ gen_i' = 0
            /\ pc' = IF wm_running THEN "starting" ELSE "generating"
            /\ UNCHANGED <<miner_running, last_network_update, update_sim_time>>
       ELSE /\ miner_running' = [i \in DOMAIN miner_running |-> TRUE]
            /\ pc' = "loop"
            /\ EnterLoop
            /\ UNCHANGED <<wm_running, gen_i>>
    /\ UNCHANGED <<cfg, wallet_call, exit_by, final_lines, blocks_mined, total_coins, summary_lines, simulated_time,
                   engineVars, concVars, diffVars, netCfgVars, netVars, lockVars, feeVars,
                   conditions, wall_clock>>

\* one iteration of the generation loop: the transaction is built and handed to
\* _on_transaction_created, which appends it to the pool
GenerateTransaction ==
    /\ pc = "generating"
    /\ gen_i < TotalTransactions(cfg)
    /\ wm_running
    /\ transaction_pool' = Append(transaction_pool, MakeTransaction(gen_i, cfg))
    /\ gen_i' = gen_i + 1
    /\ UNCHANGED <<cfg, wallet_call, pc, exit_by, final_lines, running, wm_running, miner_running, blocks_mined,
                   total_coins, summary_lines, simulated_time, blocks, block_counter, block_reward,
                   current_difficulty, last_block_time, last_block_hash,
                   miner_blocks_mined, wallets, concVars, diffVars,
                   netCfgVars, netVars, lockVars, feeVars, condVars>>

\* the rest of start: the generation loop has ended (range exhausted, or the
\* "if not self.running: break"), every miner is marked running, the loop is entered
StartMining ==
    /\ \/ pc = "starting"
       \/ pc = "generating" /\ (gen_i >= TotalTransactions(cfg) \/ ~wm_running)
    /\ miner_running' = [i \in DOMAIN miner_running |-> TRUE]
    /\ pc' = "loop"
    /\ EnterLoop
    /\ UNCHANGED <<cfg, wallet_call, exit_by, final_lines, running, wm_running, gen_i, blocks_mined, total_coins, summary_lines,
                   simulated_time, engineVars, concVars, diffVars, netCfgVars, netVars, lockVars, feeVars,
                   conditions, wall_clock>>

\* variant of _should_terminate whose block target is compared with ">"
ShouldTerminatePastTarget ==
    \/ /\ cfg.wallets > 0
       /\ Len(transaction_pool) = 0
       /\ blocks_mined > 0
       /\ cfg.wallets * cfg.transactions > 0
    \/ cfg.blocks # 0 /\ blocks_mined > cfg.blocks

\* variant of _should_terminate without the block-target condition
ShouldTerminateNoTarget ==
    /\ cfg.wallets > 0
    /\ Len(transaction_pool) = 0
    /\ blocks_mined > 0
    /\ cfg.wallets * cfg.transactions > 0

\* variant of _should_terminate whose workload condition forgets the pool
ShouldTerminateIgnoringPool ==
    \/ /\ cfg.wallets > 0
       /\ blocks_mined > 0
       /\ cfg.wallets * cfg.transactions > 0
    \/ cfg.blocks # 0 /\ blocks_mined >= cfg.blocks

\* BlockchainSimulator._should_terminate
ShouldTerminate ==
    LET pending_tx == Len(transaction_pool)
        total_expected_transactions == cfg.wallets * cfg.transactions
    IN \/ /\ cfg.wallets > 0
          /\ pending_tx = 0
          /\ blocks_mined > 0
          /\ total_expected_transactions > 0
       \/ cfg.blocks # 0 /\ blocks_mined >= cfg.blocks

\* variant of the summary test that prints after every mined block
PrintSummaryEveryBlock(lines, mined, interval) == lines + 1

\* "if self.blocks_mined % self.config.print_interval == 0: self._print_summary()"
PrintSummary(lines, mined, interval) == IF mined % interval = 0 THEN lines + 1 ELSE lines

\* the loop is left: the finally clause runs stop() and _print_final_summary()
LeaveLoop(why) ==
    /\ pc' = "stopped"
    /\ exit_by' = why
    /\ final_lines' = final_lines + 1
    /\ StopFlags

\* "while self.running" and the termination check of one iteration
LoopCheck ==
    /\ pc = "loop"
    /\ IF ~running THEN LeaveLoop("flag")
       ELSE IF ShouldTerminate THEN LeaveLoop("terminate")
       ELSE /\ pc' = "mine"
            /\ UNCHANGED <<exit_by, final_lines, running, miner_running, wm_running>>
    /\ UNCHANGED <<cfg, wallet_call, gen_i, blocks_mined, total_coins, summary_lines, simulated_time,
                   engineVars, concVars, diffVars, netCfgVars, netVars, lockVars, feeVars, condVars>>

\* mine_next_block: time since the last block, as the draw sees it
TimeSinceLast ==
    IF blocks # <<>> THEN simulated_time - last_block_time ELSE cfg.blocktime

\* mine_next_block: the chance (in percent) that random.random() lets a block be mined
DrawChance == IF TimeSinceLast >= cfg.blocktime THEN 90 ELSE 1

ActiveMiners == {i \in DOMAIN miner_running : miner_running[i]}

\* BlockchainSimulator._update_stats: total_coins
RECURSIVE SumRewardsIn(_, _, _)
SumRewardsIn(chain, lo, hi) ==
    IF lo > hi THEN RInt(0)
    ELSE IF lo = hi THEN chain[lo].miner_reward
    ELSE RAdd(SumRewardsIn(chain, lo, (lo + hi) \div 2),
              SumRewardsIn(chain, (lo + hi) \div 2 + 1, hi))

SumRewards(chain) == SumRewardsIn(chain, 1, Len(chain))

\* sum(block.transaction_count for block in recent_blocks)
RECURSIVE SumTransactionCount(_)
SumTransactionCount(chain) ==
    IF chain = <<>> THEN 0
    ELSE chain[1].transaction_count + SumTransactionCount(Tail(chain))

\* self.mining_manager.blocks[-10:]
LastBlocks(chain, n) == SubSeq(chain, Max2(1, Len(chain) - n + 1), Len(chain))

\* _update_network_conditions: the congestion and block utilization computed
\* from the pending count, the chain and the block size
NetworkConditions(pending_tx_count, chain, max_tx_per_block) ==
    LET recent_blocks == LastBlocks(chain, RECENT_BLOCKS)
    IN [network_congestion |->
            IF max_tx_per_block > 0
            THEN RMin(RInt(1), Rat(pending_tx_count, max_tx_per_block * 2))
            ELSE RInt(0),
        block_utilization |->
            IF recent_blocks # <<>>
            THEN IF max_tx_per_block > 0
                 THEN RMin(RInt(1), Rat(SumTransactionCount(recent_blocks),
                                        Len(recent_blocks) * max_tx_per_block))
                 ELSE Rat(1, 2)
            ELSE Rat(1, 2)]

\* variant of the end of an iteration without "if not self.running: break"
EndIterationIgnoringFlag ==
    /\ pc' = "loop"
    /\ UNCHANGED <<exit_by, final_lines, running, miner_running, wm_running>>
    /\ UNCHANGED <<fee_calc, conditions, last_network_update, update_sim_time>>

\* the end of an iteration: "if not self.running: break", then
\* "if current_time - last_network_update >= 600.0" with current_time = time.time()
\* recomputes the network conditions and hands them to the fee calculator
EndIteration ==
    IF ~running
    THEN /\ LeaveLoop("flag")
         /\ UNCHANGED <<fee_calc, conditions, last_network_update, update_sim_time>>
    ELSE /\ pc' = "loop"
         /\ UNCHANGED <<exit_by, final_lines, running, miner_running, wm_running>>
         /\ IF wall_clock - last_network_update >= UPDATE_INTERVAL
            THEN \E c \in {NetworkConditions(Len(transaction_pool'), blocks', cfg.blocksize)} :
                   /\ conditions' = c
                   /\ fee_calc' = UpdateFeeConditions(fee_calc, c.network_congestion,
                                                      c.block_utilization)
                   /\ last_network_update' = wall_clock
                   /\ update_sim_time' = simulated_time'
            ELSE UNCHANGED <<fee_calc, conditions, last_network_update, update_sim_time>>

\* number of 300 s skips so far
Skips == (simulated_time - SumTimeSinceLast(blocks)) \div SKIP_TIME

\* an iteration whose mine_next_block draws a block: a random active miner runs
\* mine_block (transactions, block id, block, submit); a returned block advances
\* time by its time_since_last and _update_stats runs, a rejected one makes
\* mine_next_block return None
MineSuccess ==
    /\ pc = "mine"
    /\ DrawChance > 0
    /\ Len(blocks) < ChainCap
    /\ \E miner \in ActiveMiners, v \in VarianceTenths :
       \E got \in {GetTransactionsForBlock(transaction_pool, cfg.blocksize)} :
       \E block \in {CreateBlock(miner, simulated_time,
                                 ExpectedMiningTime(cfg.blocktime, v), got.taken,
                                 NextCounter(block_counter), block_reward,
                                 last_block_hash, current_difficulty)} :
       \E start_node \in StartNodes(node_count) :
       \E e \in {SubmitBlock(EngineWith(start_node), block, miner, cfg)} :
         /\ transaction_pool' = got.rest
         /\ block_counter' = NextCounter(block_counter)
         /\ IF e.ok
            THEN \* mine_block: self.blocks_mined += 1, and the block is returned
                 /\ SetEngine([e EXCEPT !.miner_blocks_mined[miner] = @ + 1])
                 /\ simulated_time' = simulated_time + block.time_since_last
                 /\ blocks_mined' = Len(e.blocks)
                 /\ total_coins' = SumRewards(e.blocks)
                 /\ summary_lines' = PrintSummary(summary_lines, blocks_mined', cfg.print_interval)
            ELSE /\ SetEngine(e)
                 /\ simulated_time' = simulated_time + SKIP_TIME
                 /\ UNCHANGED <<blocks_mined, total_coins, summary_lines>>
    /\ UNCHANGED <<cfg, wallet_call, gen_i, concVars, diffVars, netCfgVars, lockVars, fee_call,
                   wall_clock>>
    /\ EndIteration

\* an iteration whose mine_next_block returns None (the draw fails, or no miner
\* is active): simulated time skips 300 s
MineNone ==
    /\ pc = "mine"
    /\ DrawChance < 100 \/ ActiveMiners = {}
    /\ Skips < MaxSkips
    /\ simulated_time' = simulated_time + SKIP_TIME
    /\ UNCHANGED <<cfg, wallet_call, gen_i, blocks_mined, total_coins, summary_lines, engineVars, concVars, diffVars,
                   netCfgVars, netVars, lockVars, fee_call,
                   wall_clock>>
    /\ EndIteration

\* stop() called from outside the loop while the run is in progress
Stop ==
    /\ pc \in {"generating", "starting", "loop", "mine"}
    /\ running
    /\ StopFlags
    /\ UNCHANGED <<cfg, wallet_call, pc, exit_by, final_lines, gen_i, blocks_mined, total_coins, summary_lines, simulated_time,
                   engineVars, concVars, diffVars, netCfgVars, netVars, lockVars, feeVars, condVars>>

\* KeyboardInterrupt or another exception inside the loop: caught, and the
\* finally clause runs stop()
Interrupt ==
    /\ pc \in {"loop", "mine"}
    /\ \E why \in {"interrupt", "exception"} : LeaveLoop(why)
    /\ UNCHANGED <<cfg, wallet_call, gen_i, blocks_mined, total_coins, summary_lines, simulated_time,
                   engineVars, concVars, diffVars, netCfgVars, netVars, lockVars, feeVars, condVars>>

Next ==
    \/ Start
    \/ GenerateTransaction
    \/ StartMining
    \/ LoopCheck
    \/ MineSuccess
    \/ MineNone
    \/ Stop
    \/ Interrupt

Spec == Init /\ [][Next]_vars

-----------------------------------------------------------------------------
(* The orchestrator run with its scheduling: the single thread always takes   *)
(* its next step, and a block draw that stays possible eventually succeeds.   *)
(* Past MaxSkips skips the clock is no longer advanced by a failed attempt,   *)
(* so that failed attempts can go on for ever in a finite state space. No     *)
(* stop() from outside and no interrupt arrive in these runs.                 *)
MineNoneLate ==
    /\ pc = "mine"
    /\ DrawChance < 100 \/ ActiveMiners = {}
    /\ Skips >= MaxSkips
    /\ UNCHANGED <<cfg, wallet_call, gen_i, blocks_mined, total_coins, summary_lines, simulated_time,
                   engineVars, concVars, diffVars, netCfgVars, netVars, lockVars, fee_call,
                   wall_clock>>
    /\ EndIteration

LiveConfigSet ==
    {c \in ConfigSet : c.blocktime = 6000 /\ c.halving = 0}

LiveInit == \E c \in LiveConfigSet : InitWith(c)

LiveNext ==
    \/ Start
    \/ GenerateTransaction
    \/ StartMining
    \/ LoopCheck
    \/ MineSuccess
    \/ MineNone
    \/ MineNoneLate

LiveSpec ==
    /\ LiveInit
    /\ [][LiveNext]_vars
    /\ WF_vars(Start)
    /\ WF_vars(GenerateTransaction)
    /\ WF_vars(StartMining)
    /\ WF_vars(LoopCheck)
    /\ WF_vars(MineSuccess \/ MineNone \/ MineNoneLate)
    /\ SF_vars(MineSuccess)

-----------------------------------------------------------------------------
(* Miner actors running Miner.mine_block concurrently. Each step is one call   *)
(* that takes MiningManager.lock, or one read made outside the lock. The state *)
(* is the one start() leaves behind: the workload is generated and every miner *)
(* is marked running.                                                          *)
ConcCap == MaxTarget + 1

NoLocal ==
    [mining_time |-> 0, current_sim_time |-> 0, transactions |-> <<>>, counter |-> 0,
     reward |-> RInt(0), last_hash |-> "none", block |-> <<>>, success |-> FALSE]

ConcConfigSet ==
    {c \in ConfigSet : c.miners >= 2 /\ c.blocktime = 6000 /\ c.blocks = 0 /\ c.halving <= 1}

InitConcWith(c) ==
    /\ cfg = c
    /\ wallet_call = NoWalletCall
    /\ pc = "concurrent"
    /\ exit_by = "none"
    /\ final_lines = 0
    /\ running = TRUE
    /\ wm_running = (c.wallets > 0 /\ c.transactions > 0)
    /\ gen_i = TotalTransactions(c)
    /\ miner_running = [i \in MinerIds(c) |-> TRUE]
    /\ miner_blocks_mined = [i \in MinerIds(c) |-> 0]
    /\ blocks = <<>>
    /\ block_counter = 0
    /\ transaction_pool = [k \in 1 .. TotalTransactions(c) |-> MakeTransaction(k - 1, c)]
    /\ block_reward = c.reward
    /\ current_difficulty = c.difficulty
    /\ last_block_time = 0
    /\ last_block_hash = Genesis
    /\ simulated_time = 0
    /\ blocks_mined = 0
    /\ total_coins = RInt(0)
    /\ summary_lines = 0
    /\ wallets \in WalletMaps(c)
    /\ mpc = [i \in MinerIds(c) |-> "idle"]
    /\ mlocal = [i \in MinerIds(c) |-> NoLocal]
    /\ old_difficulty = c.difficulty
    /\ adjust_count = 0
    /\ InitNetwork(1, 0)
    /\ InitLock
    /\ InitCond

InitConc == \E c \in ConcConfigSet : InitConcWith(c)

InFlight == {i \in DOMAIN mpc : mpc[i] # "idle"}

\* mine_block: expected_mining_time and current_sim_time
ConcEnter(i) ==
    /\ mpc[i] = "idle"
    /\ miner_running[i]
    /\ Len(blocks) + Cardinality(InFlight) < ConcCap
    /\ \E v \in VarianceTenths :
         mlocal' = [mlocal EXCEPT ![i] =
                      [NoLocal EXCEPT !.mining_time = ExpectedMiningTime(cfg.blocktime, v),
                                      !.current_sim_time = simulated_time]]
    /\ mpc' = [mpc EXCEPT ![i] = "create"]
    /\ UNCHANGED <<cfg, wallet_call, orchVars, miner_running, engineVars, diffVars,
                   netCfgVars, netVars, lockVars, feeVars, condVars>>

\* _create_block: transactions = mining_manager.get_transactions_for_block()
ConcGetTransactions(i) ==
    /\ mpc[i] = "create"
    /\ \E got \in {GetTransactionsForBlock(transaction_pool, cfg.blocksize)} :
         /\ transaction_pool' = got.rest
         /\ mlocal' = [mlocal EXCEPT ![i].transactions = got.taken]
    /\ mpc' = [mpc EXCEPT ![i] = "have_txs"]
    /\ UNCHANGED <<cfg, wallet_call, orchVars, miner_running, blocks, block_counter, block_reward,
                   current_difficulty, last_block_time, last_block_hash,
                   miner_blocks_mined, wallets, diffVars, netCfgVars, netVars, lockVars, feeVars, condVars>>

\* _create_block: block_id = mining_manager.get_next_block_id()
ConcGetNextBlockId(i) ==
    /\ mpc[i] = "have_txs"
    /\ block_counter' = NextCounter(block_counter)
    /\ mlocal' = [mlocal EXCEPT ![i].counter = NextCounter(block_counter)]
    /\ mpc' = [mpc EXCEPT ![i] = "have_id"]
    /\ UNCHANGED <<cfg, wallet_call, orchVars, miner_running, blocks, transaction_pool, block_reward,
                   current_difficulty, last_block_time, last_block_hash,
                   miner_blocks_mined, wallets, diffVars, netCfgVars, netVars, lockVars, feeVars, condVars>>

\* _create_block: miner_reward = mining_manager.get_block_reward()
ConcReadReward(i) ==
    /\ mpc[i] = "have_id"
    /\ mlocal' = [mlocal EXCEPT ![i].reward = block_reward]
    /\ mpc' = [mpc EXCEPT ![i] = "have_reward"]
    /\ UNCHANGED <<cfg, wallet_call, orchVars, miner_running, engineVars, diffVars,
                   netCfgVars, netVars, lockVars, feeVars, condVars>>

\* _create_block: previous_hash = mining_manager.get_last_block_hash()
ConcReadLastHash(i) ==
    /\ mpc[i] = "have_reward"
    /\ mlocal' = [mlocal EXCEPT ![i].last_hash = last_block_hash]
    /\ mpc' = [mpc EXCEPT ![i] = "have_hash"]
    /\ UNCHANGED <<cfg, wallet_call, orchVars, miner_running, engineVars, diffVars,
                   netCfgVars, netVars, lockVars, feeVars, condVars>>

\* _create_block: difficulty = mining_manager.get_current_difficulty(), Block(...)
ConcBuildBlock(i) ==
    /\ mpc[i] = "have_hash"
    /\ mlocal' = [mlocal EXCEPT ![i].block =
                    CreateBlock(i, mlocal[i].current_sim_time, mlocal[i].mining_time,
                                mlocal[i].transactions, mlocal[i].counter,
                                mlocal[i].reward, mlocal[i].last_hash, current_difficulty)]
    /\ mpc' = [mpc EXCEPT ![i] = "have_block"]
    /\ UNCHANGED <<cfg, wallet_call, orchVars, miner_running, engineVars, diffVars,
                   netCfgVars, netVars, lockVars, feeVars, condVars>>

\* mine_block: success = mining_manager.submit_block(block, self.miner_id)
ConcSubmit(i) ==
    /\ mpc[i] = "have_block"
    /\ \E start_node \in StartNodes(node_count) :
       \E e \in {SubmitBlock(EngineWith(start_node), mlocal[i].block, i, cfg)} :
         /\ SetEngine(e)
         /\ mlocal' = [mlocal EXCEPT ![i].success = e.ok]
    /\ mpc' = [mpc EXCEPT ![i] = "submitted"]
    /\ UNCHANGED <<cfg, wallet_call, orchVars, miner_running, block_counter, transaction_pool, diffVars,
                   netCfgVars, lockVars, feeVars, condVars>>

\* mine_block: "if success: self.blocks_mined += 1", return
ConcReturn(i) ==
    /\ mpc[i] = "submitted"
    /\ miner_blocks_mined' =
         IF mlocal[i].success THEN [miner_blocks_mined EXCEPT ![i] = @ + 1]
         ELSE miner_blocks_mined
    /\ mlocal' = [mlocal EXCEPT ![i] = NoLocal]
    /\ mpc' = [mpc EXCEPT ![i] = "idle"]
    /\ UNCHANGED <<cfg, wallet_call, orchVars, miner_running, blocks, block_counter, transaction_pool,
                   block_reward, current_difficulty, last_block_time, last_block_hash,
                   wallets, diffVars, netCfgVars, netVars, lockVars, feeVars, condVars>>

NextConc ==
    \E i \in DOMAIN mpc :
        \/ ConcEnter(i)
        \/ ConcGetTransactions(i)
        \/ ConcGetNextBlockId(i)
        \/ ConcReadReward(i)
        \/ ConcReadLastHash(i)
        \/ ConcBuildBlock(i)
        \/ ConcSubmit(i)
        \/ ConcReturn(i)

SpecConc == InitConc /\ [][NextConc]_vars

-----------------------------------------------------------------------------
(* MiningManager._adjust_difficulty at the end of successive windows of        *)
(* DIFFICULTY_ADJUSTMENT_BLOCKS blocks. A window is described by the sum of    *)
(* its blocks' time_since_last; every block time is a value of                 *)
(* _calculate_expected_mining_time.                                            *)
DiffBlockTimes == {5, 10, 6000}

\* args.difficulty: 0 stands for "not given"
DiffHashrates == {10}
CustomDifficulties == {RInt(0), Rat(1, 100), RInt(10), RInt(1000000)}

DiffConfigSet ==
    {MakeConfig(m, bt, 1, 0, 0, 0, 0, hr, r, d) :
        m \in 1 .. MaxMiners, bt \in DiffBlockTimes, hr \in DiffHashrates, r \in Rewards,
        d \in CustomDifficulties}

InitDiff == \E c \in DiffConfigSet : InitWith(c)

\* windows of fast blocks only, of slow blocks only, and mixtures of the two
WindowSums(c) ==
    {a * ExpectedMiningTime(c.blocktime, 8)
       + (DIFFICULTY_ADJUSTMENT_BLOCKS - a) * ExpectedMiningTime(c.blocktime, 12) :
        a \in {(q * DIFFICULTY_ADJUSTMENT_BLOCKS) \div 4 : q \in 0 .. 4}}

AdjustStep ==
    /\ adjust_count < MaxAdjustments
    /\ \E window_sum \in WindowSums(cfg) :
         /\ old_difficulty' = current_difficulty
         /\ current_difficulty' = AdjustDifficulty(current_difficulty, window_sum, cfg)
    /\ adjust_count' = adjust_count + 1
    /\ UNCHANGED <<cfg, wallet_call, orchVars, miner_running, blocks, block_counter, transaction_pool,
                   block_reward, last_block_time, last_block_hash, miner_blocks_mined,
                   wallets, concVars, netCfgVars, netVars, lockVars, feeVars, condVars>>

NextDiff == AdjustStep

SpecDiff == InitDiff /\ [][NextDiff]_vars

-----------------------------------------------------------------------------
(* The network on its own: broadcast_block, simulate_network_partition and     *)
(* heal_network_partition on every topology _connect_nodes can build.          *)
NetBlocks ==
    {[block_id |-> BlockId(k), size |-> HEADER_SIZE + (k - 1) * TRANSACTION_SIZE] :
        k \in 1 .. MaxNetBlocks}

NetConfig == MakeConfig(1, 6000, 1, 0, 0, 0, 0, 1000, RInt(50), RInt(0))

InitNet ==
    /\ InitEngine(NetConfig)
    /\ \E n \in 0 .. MaxNodes, k \in 0 .. MaxNeighbors : InitNetwork(n, k)
    /\ InitLock
    /\ InitCond

NetBroadcast ==
    /\ net_op.count < MaxNetOps
    /\ \E block \in NetBlocks, start_node \in StartNodes(node_count) :
       \E net \in {BroadcastBlock(EngineWith(start_node), block, start_node)} :
         /\ stored_blocks' = net.stored_blocks
         /\ network_stats' = net.network_stats
         /\ net_op' = [net.net_op EXCEPT !.count = @ + 1]
    /\ UNCHANGED <<cfg, wallet_call, orchVars, miner_running, engineVars, concVars, diffVars,
                   netCfgVars, lockVars, feeVars, condVars>>

NetPartition ==
    /\ net_op.count < MaxNetOps
    /\ \E partition_size \in 0 .. node_count :
         IF partition_size >= node_count
         THEN /\ net_op' = [net_op EXCEPT !.op = "partition_refused", !.count = @ + 1]
              /\ UNCHANGED <<neighbors, saved_edges>>
         ELSE \E partition_nodes \in {T \in SUBSET NodeIds(node_count) :
                                         Cardinality(T) = partition_size} :
                /\ neighbors' = SimulateNetworkPartition(neighbors, node_count,
                                                         partition_size, partition_nodes)
                /\ saved_edges' = neighbors
                /\ net_op' = [net_op EXCEPT !.op = "partition", !.fresh = FALSE,
                                            !.count = @ + 1]
    /\ UNCHANGED <<cfg, wallet_call, orchVars, miner_running, engineVars, concVars, diffVars,
                   node_count, neighbor_count, stored_blocks, network_stats, lockVars, feeVars, condVars>>

NetHeal ==
    /\ net_op.count < MaxNetOps
    /\ neighbors' \in ConnectNodes(node_count, neighbor_count, neighbors)
    /\ net_op' = [net_op EXCEPT !.op = IF net_op.op = "partition" THEN "heal_partition"
                                       ELSE "heal",
                                !.fresh = FALSE, !.count = @ + 1]
    /\ UNCHANGED <<cfg, wallet_call, orchVars, miner_running, engineVars, concVars, diffVars,
                   node_count, neighbor_count, saved_edges, stored_blocks, network_stats,
                   lockVars, feeVars, condVars>>

NextNet ==
    \/ NetBroadcast
    \/ NetPartition
    \/ NetHeal

SpecNet == InitNet /\ [][NextNet]_vars

-----------------------------------------------------------------------------
(* submit_block called by several threads, in the steps its lock allows:      *)
(* wait for MiningManager.lock, validate, append and update, run the block    *)
(* callback (whose fallback looks transactions up with get_transaction_by_id, *)
(* under the same lock), return.                                              *)
Callers == 1 .. MaxCallers

SubmitConfig == MakeConfig(MaxCallers, 6000, 1, 0, 0, 2, 1, 1000, RInt(50), RInt(0))

\* the ways a caller builds the Block it submits
Shapes == {"mined", "no_id", "no_hash", "oversized", "ids_only"}

ShapeBlock(block, shape) ==
    CASE shape = "no_id" -> [block EXCEPT !.block_id = Empty]
      [] shape = "no_hash" -> [block EXCEPT !.hash = Empty]
      [] shape = "oversized" -> [block EXCEPT !.transaction_count = cfg.blocksize + 1]
      [] shape = "ids_only" -> [block EXCEPT !.transaction_objects = <<>>]
      [] OTHER -> block

NoSubmit == [block |-> <<>>, result |-> "none", next |-> 0, found |-> 0]

InitSubmit ==
    /\ InitEngine(SubmitConfig)
    /\ InitNetwork(2, 1)
    /\ InitCond
    /\ lock = Free
    /\ spc = [c \in Callers |-> "idle"]
    /\ slocal = [c \in Callers |-> NoSubmit]
    /\ callbacks = <<>>

\* MiningManager.add_transaction: the next generated transaction enters the pool
AddTransaction ==
    /\ LockFree(lock)
    /\ Len(transaction_pool) < TotalTransactions(cfg)
    /\ transaction_pool' = Append(transaction_pool, MakeTransaction(Len(transaction_pool), cfg))
    /\ UNCHANGED <<cfg, wallet_call, orchVars, miner_running, blocks, block_counter, block_reward,
                   current_difficulty, last_block_time, last_block_hash,
                   miner_blocks_mined, wallets, concVars, diffVars, netCfgVars, netVars,
                   lockVars, feeVars, condVars>>

\* a caller builds a block and calls submit_block(block, miner_id)
SubmitCall(c) ==
    /\ spc[c] = "idle"
    /\ \E counter \in 1 .. MaxSubmitIds, shape \in Shapes,
          txs \in {<<>>, SubSeq(transaction_pool, 1, Min2(1, Len(transaction_pool)))} :
         slocal' = [slocal EXCEPT ![c] =
                       [block |-> ShapeBlock(CreateBlock(c - 1, simulated_time, cfg.blocktime,
                                                         txs, counter, block_reward,
                                                         last_block_hash, current_difficulty),
                                             shape),
                        result |-> "none", next |-> 0, found |-> slocal[c].found]]
    /\ spc' = [spc EXCEPT ![c] = "wait"]
    /\ UNCHANGED <<cfg, wallet_call, orchVars, miner_running, engineVars, concVars, diffVars,
                   netCfgVars, netVars, lock, callbacks, feeVars, condVars>>

\* "with self.lock:" of submit_block is entered
SubmitAcquire(c) ==
    /\ spc[c] = "wait"
    /\ LockFree(lock)
    /\ lock' = c
    /\ spc' = [spc EXCEPT ![c] = "validate"]
    /\ UNCHANGED <<cfg, wallet_call, orchVars, miner_running, engineVars, concVars, diffVars,
                   netCfgVars, netVars, slocal, callbacks, feeVars, condVars>>

\* "if not self._validate_block(block): return False"
SubmitValidate(c) ==
    /\ spc[c] = "validate"
    /\ IF ValidateBlock(blocks, slocal[c].block, cfg.blocksize)
       THEN /\ spc' = [spc EXCEPT ![c] = "append"]
            /\ UNCHANGED <<lock, slocal>>
       ELSE /\ spc' = [spc EXCEPT ![c] = "done"]
            /\ slocal' = [slocal EXCEPT ![c].result = "false"]
            /\ lock' = Free
    /\ UNCHANGED <<cfg, wallet_call, orchVars, miner_running, engineVars, concVars, diffVars,
                   netCfgVars, netVars, callbacks, feeVars, condVars>>

\* submit_block from the append to the halving test
SubmitAppend(c) ==
    /\ spc[c] = "append"
    /\ \E e \in {AcceptBlock(Engine, slocal[c].block, c - 1, cfg)} :
         /\ blocks' = e.blocks
         /\ last_block_time' = e.last_block_time
         /\ last_block_hash' = e.last_block_hash
         /\ miner_blocks_mined' = e.miner_blocks_mined
         /\ current_difficulty' = e.current_difficulty
         /\ block_reward' = e.block_reward
    /\ spc' = [spc EXCEPT ![c] = "callback"]
    /\ UNCHANGED <<cfg, wallet_call, orchVars, miner_running, block_counter, transaction_pool, wallets,
                   concVars, diffVars, netCfgVars, netVars, lock, slocal, callbacks, feeVars, condVars>>

\* self.block_callback(block): _on_block_mined broadcasts the block and
\* processes the attached transaction objects, or else starts to look the
\* block's transaction ids up with get_transaction_by_id
SubmitCallback(c) ==
    /\ spc[c] = "callback"
    /\ callbacks' = Append(callbacks, slocal[c].block.block_id)
    /\ \E start_node \in StartNodes(node_count) :
       \E e \in {OnBlockMined(EngineWith(start_node), slocal[c].block)} :
         SetEngine(e)
    /\ IF slocal[c].block.transaction_objects = <<>> /\ slocal[c].block.transactions # <<>>
       THEN /\ spc' = [spc EXCEPT ![c] = "lookup"]
            /\ slocal' = [slocal EXCEPT ![c].next = 1]
       ELSE /\ spc' = [spc EXCEPT ![c] = "return"]
            /\ UNCHANGED slocal
    /\ UNCHANGED <<cfg, wallet_call, orchVars, miner_running, block_counter, transaction_pool,
                   concVars, diffVars, netCfgVars, lock, feeVars, condVars>>

\* MiningManager.get_transaction_by_id: the position in the pool of the first
\* transaction with this id, 0 for None
GetTransactionById(pool, tx_id) ==
    IF \E k \in 1 .. Len(pool) : pool[k].tx_id = tx_id
    THEN CHOOSE k \in 1 .. Len(pool) :
            pool[k].tx_id = tx_id /\ \A h \in 1 .. (k - 1) : pool[h].tx_id # tx_id
    ELSE 0

\* the pool with the object of transaction tx_id confirmed
ConfirmInPool(pool, tx_id) ==
    [k \in 1 .. Len(pool) |->
        IF k = GetTransactionById(pool, tx_id) THEN Confirm(pool[k]) ELSE pool[k]]

\* the wallets after the pool's object of transaction tx_id was processed
CreditFromPool(ws, pool, tx_id) ==
    IF GetTransactionById(pool, tx_id) # 0
    THEN CreditWallets(ws, pool[GetTransactionById(pool, tx_id)])
    ELSE ws

\* get_transaction_by_id enters "with self.lock:" and searches the pool. Called
\* by the callback's fallback for the next transaction id of the block, the
\* object found is processed; called from outside, the object is returned
SubmitLookup(c) ==
    /\ spc[c] \in {"idle", "lookup"}
    /\ LockFree(lock)
    /\ IF spc[c] = "lookup"
       THEN /\ \E tx_id \in {slocal[c].block.transactions[slocal[c].next]} :
                 /\ transaction_pool' = ConfirmInPool(transaction_pool, tx_id)
                 /\ wallets' = CreditFromPool(wallets, transaction_pool, tx_id)
            /\ IF slocal[c].next < Len(slocal[c].block.transactions)
               THEN /\ slocal' = [slocal EXCEPT ![c].next = @ + 1]
                    /\ UNCHANGED spc
               ELSE /\ spc' = [spc EXCEPT ![c] = "return"]
                    /\ UNCHANGED slocal
       ELSE /\ \E i \in 0 .. (TotalTransactions(cfg) - 1) :
                 slocal' = [slocal EXCEPT ![c].found =
                               GetTransactionById(transaction_pool, TxId(i))]
            /\ UNCHANGED <<spc, transaction_pool, wallets>>
    /\ UNCHANGED <<cfg, wallet_call, orchVars, miner_running, blocks, block_counter, block_reward,
                   current_difficulty, last_block_time, last_block_hash,
                   miner_blocks_mined, concVars, diffVars, netCfgVars, netVars, lock,
                   callbacks, feeVars, condVars>>

\* "return True": the with block is left
SubmitReturn(c) ==
    /\ spc[c] = "return"
    /\ lock' = IF lock = c THEN Free ELSE lock
    /\ spc' = [spc EXCEPT ![c] = "done"]
    /\ slocal' = [slocal EXCEPT ![c].result = "true"]
    /\ UNCHANGED <<cfg, wallet_call, orchVars, miner_running, engineVars, concVars, diffVars,
                   netCfgVars, netVars, callbacks, feeVars, condVars>>

NextSubmit ==
    \/ AddTransaction
    \/ \E c \in Callers : SubmitCall(c)
    \/ \E c \in Callers : SubmitAcquire(c)
    \/ \E c \in Callers : SubmitValidate(c)
    \/ \E c \in Callers : SubmitAppend(c)
    \/ \E c \in Callers : SubmitCallback(c)
    \/ \E c \in Callers : SubmitLookup(c)
    \/ \E c \in Callers : SubmitReturn(c)

SpecSubmit == InitSubmit /\ [][NextSubmit]_vars

-----------------------------------------------------------------------------
(* The orchestrator run with a registered block callback that may raise. The  *)
(* iteration is then taken in two steps: up to the raise inside the callback  *)
(* (the caller holds MiningManager.lock), and from the except clause of       *)
(* submit_block to the end of the iteration.                                  *)
FailConfigSet ==
    {c \in ConfigSet : /\ c.blocktime = 6000 /\ c.miners = 1 /\ c.blocksize = 1
                       /\ c.halving \in {0, 1} /\ c.wallets \in {0, 1}
                       /\ c.transactions \in {0, MaxTxPerWallet}}

InitFail == \E c \in FailConfigSet : InitWith(c)

\* variant of submit_block whose callback exception reaches the caller
\* (mine_block then logs it and returns None)
SubmitResultPropagated == FALSE

\* submit_block after "except Exception as e" around the callback: "return True"
SubmitResultAfterRaise == TRUE

\* the callback up to its raise: before the broadcast, or between the
\* broadcast and the processing of the transactions
CallbackUntilRaise(e, block, raise_at) ==
    IF raise_at = "process" THEN BroadcastBlock(e, block, e.start_node) ELSE e

\* an iteration whose block is valid and whose callback raises: submit_block
\* has appended the block and updated tip, statistics, difficulty and reward
MineCallbackRaises ==
    /\ pc = "mine"
    /\ DrawChance > 0
    /\ Len(blocks) < ChainCap
    /\ \E miner \in ActiveMiners, v \in VarianceTenths, raise_at \in {"broadcast", "process"} :
       \E got \in {GetTransactionsForBlock(transaction_pool, cfg.blocksize)} :
       \E block \in {CreateBlock(miner, simulated_time,
                                 ExpectedMiningTime(cfg.blocktime, v), got.taken,
                                 NextCounter(block_counter), block_reward,
                                 last_block_hash, current_difficulty)} :
       \E start_node \in StartNodes(node_count) :
         /\ ValidateBlock(blocks, block, cfg.blocksize)
         /\ transaction_pool' = got.rest
         /\ block_counter' = NextCounter(block_counter)
         /\ SetEngine(CallbackUntilRaise(AcceptBlock(EngineWith(start_node), block, miner, cfg),
                                         block, raise_at))
         /\ lock' = miner + 1
    /\ pc' = "raised"
    /\ UNCHANGED <<cfg, wallet_call, exit_by, final_lines, running, wm_running, gen_i, blocks_mined, total_coins, summary_lines,
                   simulated_time, miner_running, concVars, diffVars, netCfgVars,
                   spc, slocal, callbacks, feeVars, condVars>>

\* the exception is handled, the with block is left, mine_block and the loop
\* go on with what submit_block returned
MineCallbackCaught ==
    /\ pc = "raised"
    /\ lock' = Free
    /\ IF SubmitResultAfterRaise
       THEN /\ miner_blocks_mined' = [miner_blocks_mined EXCEPT ![lock - 1] = @ + 1]
            /\ simulated_time' = simulated_time + blocks[Len(blocks)].time_since_last
            /\ blocks_mined' = Len(blocks)
            /\ total_coins' = SumRewards(blocks)
            /\ summary_lines' = PrintSummary(summary_lines, blocks_mined', cfg.print_interval)
       ELSE /\ simulated_time' = simulated_time + SKIP_TIME
            /\ UNCHANGED <<miner_blocks_mined, blocks_mined, total_coins, summary_lines>>
    /\ UNCHANGED <<cfg, wallet_call, gen_i, blocks, block_counter, transaction_pool, block_reward,
                   current_difficulty, last_block_time, last_block_hash, wallets,
                   concVars, diffVars, netCfgVars, netVars, spc, slocal, callbacks, fee_call,
                   wall_clock>>
    /\ EndIteration

NextFail ==
    \/ Start
    \/ GenerateTransaction
    \/ StartMining
    \/ LoopCheck
    \/ MineSuccess
    \/ MineNone
    \/ MineCallbackRaises
    \/ MineCallbackCaught
    \/ Stop
    \/ Interrupt

SpecFail == InitFail /\ [][NextFail]_vars

-----------------------------------------------------------------------------
(* The Fee Model on its own: update_network_conditions and calculate_fee for  *)
(* amounts, congestion levels and utilizations inside and outside their       *)
(* documented ranges.                                                         *)
Amounts == {RInt(0 - 1), RInt(0), Rat(1, 10), RInt(1), RInt(10), RInt(1000)}
Congestions == {RInt(0 - 1), RInt(0), Rat(1, 2), RInt(1), RInt(3)}
Utilizations == {RInt(0 - 1), RInt(0), Rat(1, 2), RInt(1), RInt(2)}

InitFee == InitEngine(NetConfig) /\ InitNetwork(0, 0) /\ InitLock /\ InitCond

FeeUpdate ==
    /\ \E congestion \in Congestions, block_utilization \in Utilizations :
         fee_calc' = UpdateFeeConditions(fee_calc, congestion, block_utilization)
    /\ UNCHANGED <<cfg, wallet_call, orchVars, miner_running, engineVars, concVars, diffVars,
                   netCfgVars, netVars, lockVars, fee_call, condVars>>

\* calculate_fee(amount, priority, network_congestion), once per priority
FeeCalculate ==
    /\ \E amount \in Amounts, network_congestion \in Congestions :
         fee_call' = [made |-> TRUE, amount |-> amount,
                      network_congestion |-> network_congestion,
                      fees |-> [p \in Priorities |->
                                  CalculateFee(fee_calc, amount, p, network_congestion)]]
    /\ UNCHANGED <<cfg, wallet_call, orchVars, miner_running, engineVars, concVars, diffVars,
                   netCfgVars, netVars, lockVars, fee_calc, condVars>>

NextFee ==
    \/ FeeUpdate
    \/ FeeCalculate

SpecFee == InitFee /\ [][NextFee]_vars

-----------------------------------------------------------------------------
(* The orchestrator run with the wall clock passing: time.time() moves on      *)
(* between any two steps, in halves of the 600 s update interval.               *)
MaxWallTicks == 3

CondConfigSet ==
    {c \in ConfigSet : /\ c.blocktime = 6000 /\ c.miners = 1 /\ c.blocksize = 1
                       /\ c.halving = 0 /\ c.wallets \in {0, 1}
                       /\ c.transactions \in {0, MaxTxPerWallet}}

InitCondRun == \E c \in CondConfigSet : InitWith(c)

\* the wall clock read by time.time() moves on
Tick ==
    /\ wall_clock < MaxWallTicks * (UPDATE_INTERVAL \div 2)
    /\ wall_clock' = wall_clock + UPDATE_INTERVAL \div 2
    /\ UNCHANGED <<cfg, wallet_call, orchVars, miner_running, engineVars, concVars, diffVars,
                   netCfgVars, netVars, lockVars, feeVars, conditions,
                   last_network_update, update_sim_time>>

NextCond ==
    \/ Next
    \/ Tick

SpecCond == InitCondRun /\ [][NextCond]_vars

-----------------------------------------------------------------------------
(* A chain long enough for a difficulty adjustment: one miner, no wallets, the *)
(* loop body's successful path (mine_block, then advance_simulation_time)      *)
(* repeated past block 2016, with submissions of an already accepted block in  *)
(* between, on a network without nodes. The mining-time draw is the upper one  *)
(* up to the adjustment and free after it.                                     *)
LongConfig == MakeConfig(1, 6000, 1, 0, 0, 0, 0, 1000, RInt(50), RInt(0))

LongCap == DIFFICULTY_ADJUSTMENT_BLOCKS + 2

\* the draws of random.uniform(0.8, 1.2) explored for the next block
LongVariance == IF Len(blocks) >= DIFFICULTY_ADJUSTMENT_BLOCKS THEN VarianceTenths ELSE {12}

InitLong == InitEngine(LongConfig) /\ InitNetwork(0, 0) /\ InitLock /\ InitCond

\* Miner.mine_block by miner_0, the loop's advance_simulation_time and
\* _update_stats
LongMine ==
    /\ Len(blocks) < LongCap
    /\ \E v \in LongVariance :
       \E block \in {CreateBlock(0, simulated_time, ExpectedMiningTime(cfg.blocktime, v), <<>>,
                                 NextCounter(block_counter), block_reward,
                                 last_block_hash, current_difficulty)} :
       \E e \in {SubmitBlock(Engine, block, 0, cfg)} :
         /\ e.ok
         /\ SetEngine([e EXCEPT !.miner_blocks_mined[0] = @ + 1])
         /\ block_counter' = NextCounter(block_counter)
         /\ simulated_time' = simulated_time + block.time_since_last
         /\ blocks_mined' = Len(e.blocks)
         /\ total_coins' = SumRewards(e.blocks)
         /\ summary_lines' = PrintSummary(summary_lines, blocks_mined', cfg.print_interval)
    /\ UNCHANGED <<cfg, wallet_call, pc, exit_by, final_lines, running, wm_running, gen_i, miner_running,
                   transaction_pool, concVars, diffVars, netCfgVars, lockVars, feeVars,
                   condVars>>

\* submit_block called again with a block of the chain: refused as a duplicate,
\* the result is kept in net_op
LongResubmit ==
    /\ blocks # <<>>
    /\ \E e \in {SubmitBlock(Engine, blocks[Len(blocks)], 0, cfg)} :
         SetEngine([e EXCEPT !.net_op = [@ EXCEPT !.op = "submit", !.result = e.ok]])
    /\ UNCHANGED <<cfg, wallet_call, orchVars, miner_running, block_counter, transaction_pool,
                   concVars, diffVars, netCfgVars, lockVars, feeVars, condVars>>

NextLong ==
    \/ LongMine
    \/ LongResubmit

SpecLong == InitLong /\ [][NextLong]_vars

-----------------------------------------------------------------------------
(* Miner actors running mine_block concurrently while the workload is still    *)
(* being enqueued: the pool starts empty and add_transaction interleaves with  *)
(* the miners' steps.                                                          *)
EnqConfigSet ==
    {c \in ConcConfigSet : /\ c.miners = 2 /\ c.halving = 0 /\ c.wallets \in {1, MaxWallets}
                           /\ c.transactions = MaxTxPerWallet}

InitEnqWith(c) ==
    /\ cfg = c
    /\ wallet_call = NoWalletCall
    /\ pc = "concurrent"
    /\ exit_by = "none"
    /\ final_lines = 0
    /\ running = TRUE
    /\ wm_running = TRUE
    /\ gen_i = 0
    /\ miner_running = [i \in MinerIds(c) |-> TRUE]
    /\ miner_blocks_mined = [i \in MinerIds(c) |-> 0]
    /\ blocks = <<>>
    /\ block_counter = 0
    /\ transaction_pool = <<>>
    /\ block_reward = c.reward
    /\ current_difficulty = c.difficulty
    /\ last_block_time = 0
    /\ last_block_hash = Genesis
    /\ simulated_time = 0
    /\ blocks_mined = 0
    /\ total_coins = RInt(0)
    /\ summary_lines = 0
    /\ wallets \in WalletMaps(c)
    /\ mpc = [i \in MinerIds(c) |-> "idle"]
    /\ mlocal = [i \in MinerIds(c) |-> NoLocal]
    /\ old_difficulty = c.difficulty
    /\ adjust_count = 0
    /\ InitNetwork(1, 0)
    /\ InitLock
    /\ InitCond

InitEnq == \E c \in EnqConfigSet : InitEnqWith(c)

\* _on_transaction_created: MiningManager.add_transaction, under the lock
ConcEnqueue ==
    /\ gen_i < TotalTransactions(cfg)
    /\ wm_running
    /\ transaction_pool' = Append(transaction_pool, MakeTransaction(gen_i, cfg))
    /\ gen_i' = gen_i + 1
    /\ UNCHANGED <<cfg, wallet_call, pc, exit_by, final_lines, running, wm_running, miner_running, blocks_mined,
                   total_coins, summary_lines, simulated_time, blocks, block_counter, block_reward,
                   current_difficulty, last_block_time, last_block_hash,
                   miner_blocks_mined, wallets, concVars, diffVars,
                   netCfgVars, netVars, lockVars, feeVars, condVars>>

NextEnq ==
    \/ \E i \in DOMAIN mpc :
        \/ ConcEnter(i)
        \/ ConcGetTransactions(i)
        \/ ConcGetNextBlockId(i)
        \/ ConcReadReward(i)
        \/ ConcReadLastHash(i)
        \/ ConcBuildBlock(i)
        \/ ConcSubmit(i)
        \/ ConcReturn(i)
    \/ ConcEnqueue

SpecEnq == InitEnq /\ [][NextEnq]_vars

-----------------------------------------------------------------------------
(* The orchestrator run with stop() arriving inside an iteration: the          *)
(* iteration is taken in two steps, mine_next_block up to random.choice of the *)
(* miner, and from miner.mine_block to the end of the iteration, so that the   *)
(* run flag can be cleared between the two. slocal holds the chosen miner and, *)
(* once its block is appended, the run flag as it was at that moment. The      *)
(* single thread always takes its next step.                                   *)
MineSelect ==
    /\ pc = "mine"
    /\ DrawChance > 0
    /\ Len(blocks) < ChainCap
    /\ \E miner \in ActiveMiners : slocal' = <<[miner |-> miner, running |-> TRUE]>>
    /\ pc' = "selected"
    /\ UNCHANGED <<cfg, wallet_call, exit_by, final_lines, running, wm_running, gen_i, blocks_mined, total_coins, summary_lines,
                   simulated_time, miner_running, engineVars, concVars, diffVars, netCfgVars,
                   netVars, lock, spc, callbacks, feeVars, condVars>>

\* stop() while the chosen miner has not yet run mine_block
StopSelected ==
    /\ pc = "selected"
    /\ running
    /\ StopFlags
    /\ UNCHANGED <<cfg, wallet_call, pc, exit_by, final_lines, gen_i, blocks_mined, total_coins, summary_lines, simulated_time,
                   engineVars, concVars, diffVars, netCfgVars, netVars, lockVars, feeVars,
                   condVars>>

\* miner.mine_block of the chosen miner (it does not look at any running flag)
\* and the rest of the iteration
MineSelected ==
    /\ pc = "selected"
    /\ \E v \in VarianceTenths :
       \E miner \in {slocal[1].miner} :
       \E got \in {GetTransactionsForBlock(transaction_pool, cfg.blocksize)} :
       \E block \in {CreateBlock(miner, simulated_time,
                                 ExpectedMiningTime(cfg.blocktime, v), got.taken,
                                 NextCounter(block_counter), block_reward,
                                 last_block_hash, current_difficulty)} :
       \E start_node \in StartNodes(node_count) :
       \E e \in {SubmitBlock(EngineWith(start_node), block, miner, cfg)} :
         /\ transaction_pool' = got.rest
         /\ block_counter' = NextCounter(block_counter)
         /\ slocal' = <<[miner |-> miner, running |-> running]>>
         /\ IF e.ok
            THEN /\ SetEngine([e EXCEPT !.miner_blocks_mined[miner] = @ + 1])
                 /\ simulated_time' = simulated_time + block.time_since_last
                 /\ blocks_mined' = Len(e.blocks)
                 /\ total_coins' = SumRewards(e.blocks)
                 /\ summary_lines' = PrintSummary(summary_lines, blocks_mined', cfg.print_interval)
            ELSE /\ SetEngine(e)
                 /\ simulated_time' = simulated_time + SKIP_TIME
                 /\ UNCHANGED <<blocks_mined, total_coins, summary_lines>>
    /\ UNCHANGED <<cfg, wallet_call, gen_i, concVars, diffVars, netCfgVars, lock, spc, callbacks, fee_call,
                   wall_clock>>
    /\ EndIteration

NextStop ==
    \/ Start
    \/ GenerateTransaction
    \/ StartMining
    \/ LoopCheck
    \/ MineSelect
    \/ MineSelected
    \/ MineNone
    \/ MineNoneLate
    \/ Stop
    \/ StopSelected

SpecStop ==
    /\ InitFail
    /\ [][NextStop]_vars
    /\ WF_vars(LoopCheck)
    /\ WF_vars(MineSelect \/ MineNone \/ MineNoneLate)
    /\ WF_vars(MineSelected)

-----------------------------------------------------------------------------
(* The orchestrator run over target block times from below half a second to   *)
(* ten minutes, every block drawn with a variance anywhere in 0.8 .. 1.2.     *)
AttemptBlockTimes == {4, 5, 10, 25, 6000}
AttemptVariance == 8 .. 12

AttemptConfigSet ==
    {MakeConfig(1, bt, 1, 0, n, 0, 0, hr, r, RInt(0)) :
        bt \in AttemptBlockTimes, n \in 1 .. MaxTarget, hr \in Hashrates, r \in Rewards}

InitAttempt == \E c \in AttemptConfigSet : InitWith(c)

\* an iteration whose mine_next_block draws a block
MineAttempt ==
    /\ pc = "mine"
    /\ DrawChance > 0
    /\ Len(blocks) < ChainCap
    /\ \E miner \in ActiveMiners, v \in AttemptVariance :
       \E got \in {GetTransactionsForBlock(transaction_pool, cfg.blocksize)} :
       \E block \in {CreateBlock(miner, simulated_time,
                                 ExpectedMiningTime(cfg.blocktime, v), got.taken,
                                 NextCounter(block_counter), block_reward,
                                 last_block_hash, current_difficulty)} :
       \E start_node \in StartNodes(node_count) :
       \E e \in {SubmitBlock(EngineWith(start_node), block, miner, cfg)} :
         /\ transaction_pool' = got.rest
         /\ block_counter' = NextCounter(block_counter)
         /\ IF e.ok
            THEN /\ SetEngine([e EXCEPT !.miner_blocks_mined[miner] = @ + 1])
                 /\ simulated_time' = simulated_time + block.time_since_last
                 /\ blocks_mined' = Len(e.blocks)
                 /\ total_coins' = SumRewards(e.blocks)
                 /\ summary_lines' = PrintSummary(summary_lines, blocks_mined', cfg.print_interval)
            ELSE /\ SetEngine(e)
                 /\ simulated_time' = simulated_time + SKIP_TIME
                 /\ UNCHANGED <<blocks_mined, total_coins, summary_lines>>
    /\ UNCHANGED <<cfg, wallet_call, gen_i, concVars, diffVars, netCfgVars, lockVars, fee_call,
                   wall_clock>>
    /\ EndIteration

NextAttempt ==
    \/ Start
    \/ LoopCheck
    \/ MineAttempt
    \/ MineNone

SpecAttempt == InitAttempt /\ [][NextAttempt]_vars

-----------------------------------------------------------------------------
(* The wallet ledger on its own: add_balance, subtract_balance and            *)
(* transfer_balance are called in any order on the wallets of a manager, with *)
(* non-negative whole amounts and fees, also for a wallet id that does not    *)
(* exist. wallet_call holds the last call and its return value.               *)
MaxWalletOps == 3
WalletAmounts == {0, 4, 10, 11}
WalletFees == {0, 1}

WalletConfig == MakeConfig(1, 6000, 1, 0, 0, MaxWallets, 0, 1000, RInt(50), RInt(0))

InitWallet == InitEngine(WalletConfig) /\ InitNetwork(0, 0) /\ InitLock /\ InitCond

\* the wallet ids a caller may name: the manager's wallets and one more
CallableWallets == DOMAIN wallets \cup {WalletId(MaxWallets)}

RECURSIVE WalletOpsIn(_, _)
WalletOpsIn(ws, ids) ==
    IF ids = {} THEN 0
    ELSE LET id == CHOOSE x \in ids : TRUE
         IN ws[id].transactions_sent + ws[id].transactions_received
                + WalletOpsIn(ws, ids \ {id})

\* WalletManager.transfer_balance: the return value and the wallet map afterwards
TransferBalance(ws, from_wallet, to_wallet, amount) ==
    IF from_wallet \notin DOMAIN ws \/ to_wallet \notin DOMAIN ws
    THEN [ok |-> FALSE, wallets |-> ws]
    ELSE IF ws[from_wallet].balance >= amount
         THEN LET debited == [ws EXCEPT ![from_wallet] = SubtractBalance(@, amount, 0).w]
              IN [ok |-> TRUE,
                  wallets |-> [debited EXCEPT ![to_wallet] = AddBalance(@, amount)]]
         ELSE [ok |-> FALSE, wallets |-> ws]

WalletFrame ==
    UNCHANGED <<cfg, orchVars, miner_running, blocks, block_counter, transaction_pool,
                block_reward, current_difficulty, last_block_time, last_block_hash,
                miner_blocks_mined, concVars, diffVars, netCfgVars, netVars, lockVars,
                feeVars, condVars>>

WalletAddBalance ==
    /\ WalletOpsIn(wallets, DOMAIN wallets) < MaxWalletOps
    /\ \E id \in DOMAIN wallets, amount \in WalletAmounts :
         /\ wallets' = [wallets EXCEPT ![id] = AddBalance(@, amount)]
         /\ wallet_call' = [op |-> "add", from |-> id, to |-> id, amount |-> amount,
                            fee |-> 0, result |-> TRUE]
    /\ WalletFrame

WalletSubtractBalance ==
    /\ WalletOpsIn(wallets, DOMAIN wallets) < MaxWalletOps
    /\ \E id \in DOMAIN wallets, amount \in WalletAmounts, fee \in WalletFees :
       \E r \in {SubtractBalance(wallets[id], amount, fee)} :
         /\ wallets' = [wallets EXCEPT ![id] = r.w]
         /\ wallet_call' = [op |-> "subtract", from |-> id, to |-> id, amount |-> amount,
                            fee |-> fee, result |-> r.ok]
    /\ WalletFrame

WalletTransferBalance ==
    /\ WalletOpsIn(wallets, DOMAIN wallets) < MaxWalletOps
    /\ \E from_wallet \in CallableWallets, to_wallet \in CallableWallets,
          amount \in WalletAmounts :
       \E r \in {TransferBalance(wallets, from_wallet, to_wallet, amount)} :
         /\ wallets' = r.wallets
         /\ wallet_call' = [op |-> "transfer", from |-> from_wallet, to |-> to_wallet,
                            amount |-> amount, fee |-> 0, result |-> r.ok]
    /\ WalletFrame

NextWallet ==
    \/ WalletAddBalance
    \/ WalletSubtractBalance
    \/ WalletTransferBalance

SpecWallet == InitWallet /\ [][NextWallet]_vars

-----------------------------------------------------------------------------
(* start() called again on an orchestrator whose loop has ended: the run flag *)
(* is set again, start_transaction_generation finds WalletManager.running     *)
(* cleared by the stop() of the finally clause and generates the workload     *)
(* anew, into the pool as the previous run left it.                           *)
MaxRuns == 2

RestartConfigSet ==
    {c \in ConfigSet : /\ c.blocktime = 6000 /\ c.miners = 1 /\ c.halving = 0
                       /\ c.wallets \in {0, 1} /\ c.transactions \in {0, MaxTxPerWallet}}

InitRestart == \E c \in RestartConfigSet : InitWith(c)

\* BlockchainSimulator.start up to the call of start_transaction_generation, on
\* an orchestrator that ran before
StartAgain ==
    /\ pc = "stopped"
    /\ final_lines < MaxRuns
    /\ running' = TRUE
    /\ IF cfg.wallets > 0 /\ cfg.transactions > 0
       THEN /\ wm_running' = TRUE
            /\ gen_i' = 0
            /\ pc' = IF wm_running THEN "starting" ELSE "generating"
            /\ UNCHANGED <<miner_running, last_network_update, update_sim_time>>
       ELSE /\ miner_running' = [i \in DOMAIN miner_running |-> TRUE]
            /\ pc' = "loop"
            /\ EnterLoop
            /\ UNCHANGED <<wm_running, gen_i>>
    /\ UNCHANGED <<cfg, wallet_call, exit_by, final_lines, blocks_mined, total_coins,
                   summary_lines, simulated_time, engineVars, concVars, diffVars,
                   netCfgVars, netVars, lockVars, feeVars, conditions, wall_clock>>

NextRestart ==
    \/ Start
    \/ GenerateTransaction
    \/ StartMining
    \/ LoopCheck
    \/ MineSuccess
    \/ MineNone
    \/ Stop
    \/ Interrupt
    \/ StartAgain

SpecRestart == InitRestart /\ [][NextRestart]_vars

-----------------------------------------------------------------------------
(* The orchestrator run with a print interval small enough for periodic       *)
(* summary lines to appear within the chains explored.                        *)
MaxPrintInterval == 3

PrintConfigSet ==
    {[c EXCEPT !.print_interval = p] :
        c \in {d \in ConfigSet : /\ d.blocktime = 6000 /\ d.miners = 1 /\ d.halving = 0
                                 /\ d.wallets \in {0, 1}
                                 /\ d.transactions \in {0, MaxTxPerWallet}},
        p \in 1 .. MaxPrintInterval}

InitPrint == \E c \in PrintConfigSet : InitWith(c)

SpecPrint == InitPrint /\ [][Next]_vars

-----------------------------------------------------------------------------
(* Properties *)

\* C1: in a run driven by the single orchestrator loop, the k-th block of the
\* chain has block_id "block_k" in every reachable state, so the ids along the
\* chain are unique, strictly increasing and gap-free.
C1_ChainIdsSequential ==
    \A k \in 1 .. Len(blocks) : blocks[k].block_id = BlockId(k)

C1_TwoBlocksMined ==
    /\ Len(blocks) >= 2
    /\ blocks[1].block_id = BlockId(1)
    /\ blocks[2].block_id = BlockId(2)

\* C2: when miner actors run mine_block concurrently, the chain holds its blocks
\* in increasing block_id order: a block with a larger id is never appended
\* before a block with a smaller id.
C2_ChainInIdOrder ==
    \A j, k \in 1 .. Len(blocks) :
        j < k => blocks[j].block_id[2] < blocks[k].block_id[2]

\* C3: with a block-count target N >= 1 the chain never holds more than N blocks,
\* and a run without workload that the termination check stops holds exactly N.
C3_TargetBoundsChain ==
    cfg.blocks >= 1 =>
        /\ Len(blocks) <= cfg.blocks
        /\ (cfg.wallets * cfg.transactions = 0 /\ pc = "stopped" /\ exit_by = "terminate")
               => Len(blocks) = cfg.blocks

C3_StoppedAtTarget ==
    /\ cfg.blocks = MaxTarget
    /\ cfg.transactions = 0
    /\ pc = "stopped"
    /\ exit_by = "terminate"
    /\ Len(blocks) = MaxTarget

\* C4: with at least one miner, a block-count target and 0 transactions per
\* wallet, the orchestrator loop eventually reaches Stopped when a block draw
\* that is repeatedly possible eventually succeeds.
C4_TargetRunStops ==
    (cfg.miners >= 1 /\ cfg.blocks >= 1 /\ cfg.transactions = 0) => <>(pc = "stopped")

C4_StoppedAfterSkip ==
    /\ cfg.miners >= 1
    /\ cfg.blocks >= 2
    /\ cfg.transactions = 0
    /\ pc = "stopped"
    /\ simulated_time > SumTimeSinceLast(blocks)

\* C5: with a workload W = wallets x transactions > 0, blocksize >= 1, a miner and
\* no smaller block target, the run eventually stops; it stops at the first
\* termination check that finds the pool empty and a block mined; the chain then
\* holds ceil(W / blocksize) blocks; it never stops with a transaction pending.
C5_Workload ==
    /\ cfg.wallets * cfg.transactions > 0
    /\ cfg.blocksize >= 1
    /\ cfg.miners >= 1
    /\ cfg.blocks = 0 \/ cfg.blocks >= CeilDiv(cfg.wallets * cfg.transactions, cfg.blocksize)

C5_WorkloadRunStops ==
    /\ C5_Workload => <>(pc = "stopped")
    /\ [](C5_Workload /\ pc = "stopped" =>
            /\ exit_by = "terminate"
            /\ Len(transaction_pool) = 0
            /\ Len(blocks) = CeilDiv(cfg.wallets * cfg.transactions, cfg.blocksize))
    /\ [][C5_Workload /\ pc = "loop" /\ Len(transaction_pool) = 0 /\ blocks_mined > 0
            => pc' = "stopped"]_vars

C5_StoppedWithWorkloadMined ==
    /\ C5_Workload
    /\ pc = "stopped"
    /\ cfg.wallets * cfg.transactions > cfg.blocksize
    /\ Len(blocks) >= 2
    /\ Len(transaction_pool) = 0

\* C6: when start() runs with wallets > 0 and transactions > 0, the first mining
\* attempt finds wallets x transactions transactions in the pool, all pending, in
\* generation order.
C6_GenerationBeforeMining ==
    (pc = "mine" /\ block_counter = 0 /\ cfg.wallets > 0 /\ cfg.transactions > 0) =>
        /\ Len(transaction_pool) = cfg.wallets * cfg.transactions
        /\ \A k \in 1 .. Len(transaction_pool) :
              /\ transaction_pool[k].tx_id = TxId(k - 1)
              /\ transaction_pool[k].status = "pending"

C6_FirstAttemptWithFullPool ==
    /\ pc = "mine"
    /\ block_counter = 0
    /\ cfg.wallets = MaxWallets
    /\ cfg.transactions = MaxTxPerWallet
    /\ Len(transaction_pool) = MaxWallets * MaxTxPerWallet

\* C7: the block reward equals initialReward / 2^floor(n / halving), n the chain
\* length, when a halving interval >= 1 is configured, and initialReward when
\* halving is unset.
C7_RewardSchedule ==
    block_reward =
        IF cfg.halving >= 1
        THEN RDiv(cfg.reward, RInt(Pow2(Len(blocks) \div cfg.halving)))
        ELSE cfg.reward

C7_HalvedTwice ==
    /\ cfg.halving = 1
    /\ Len(blocks) = 2
    /\ block_reward = RDiv(cfg.reward, RInt(4))

InBaseRange(difficulty, c) ==
    /\ RLe(RMul(BaseDifficulty(c), Rat(1, 10)), difficulty)
    /\ RLe(difficulty, RMul(BaseDifficulty(c), RInt(5)))

\* C8: immediately after any difficulty adjustment the current difficulty lies
\* within [0.1 x B, 5.0 x B], B = blocktime x miners x hashrate.
C8_DifficultyInBaseRange ==
    adjust_count > 0 => InBaseRange(current_difficulty, cfg)

C8_ClampedFromAbove ==
    /\ adjust_count = 1
    /\ RLt(RMul(BaseDifficulty(cfg), RInt(5)), old_difficulty)
    /\ current_difficulty = RMul(BaseDifficulty(cfg), RInt(5))

\* C9 (as stated): for any single adjustment and every configured initial
\* difficulty, newDifficulty / oldDifficulty is at most 1.5 and at least 1/1.5.
C9_StepBound ==
    adjust_count > 0 =>
        /\ RLe(current_difficulty, RMul(old_difficulty, Rat(3, 2)))
        /\ RLe(old_difficulty, RMul(current_difficulty, Rat(3, 2)))

\* C9 (amended): for any single adjustment that starts from a difficulty within
\* [0.1 x B, 5.0 x B], newDifficulty / oldDifficulty is at most 1.5 and at
\* least 1/1.5.
C9_StepBoundInBaseRange ==
    (adjust_count > 0 /\ InBaseRange(old_difficulty, cfg)) =>
        /\ RLe(current_difficulty, RMul(old_difficulty, Rat(3, 2)))
        /\ RLe(old_difficulty, RMul(current_difficulty, Rat(3, 2)))

C9_LargestStepDown ==
    /\ adjust_count > 0
    /\ InBaseRange(old_difficulty, cfg)
    /\ current_difficulty = RMul(old_difficulty, Rat(67, 100))

RECURSIVE ChainTransactionIds(_)
ChainTransactionIds(chain) ==
    IF chain = <<>> THEN <<>>
    ELSE chain[1].transactions \o ChainTransactionIds(Tail(chain))

PoolTransactionIds == [k \in 1 .. Len(transaction_pool) |-> transaction_pool[k].tx_id]

\* C10: the pool is strict FIFO: every dequeue for a block returns the first
\* min(blocksize, poolSize) transactions in enqueue order and leaves the rest in
\* the pool in their order; so the blocks' transactions followed by the pool are
\* the enqueued transactions in enqueue order.
C10_PoolFifo ==
    /\ ChainTransactionIds(blocks) \o PoolTransactionIds = [k \in 1 .. gen_i |-> TxId(k - 1)]
    /\ \A k \in 1 .. Len(blocks) :
          /\ Len(blocks[k].transactions) = blocks[k].transaction_count
          /\ blocks[k].transaction_count =
                Min2(cfg.blocksize,
                     gen_i - Len(ChainTransactionIds(SubSeq(blocks, 1, k - 1))))

C10_PartialDequeue ==
    /\ gen_i = MaxWallets * MaxTxPerWallet
    /\ Len(blocks) = 1
    /\ blocks[1].transactions = <<TxId(0), TxId(1)>>
    /\ Len(transaction_pool) = gen_i - 2
    /\ transaction_pool[1].tx_id = TxId(2)

\* a step of SpecNet that is one broadcast_block call reaching a node
BroadcastStep == net_op'.count = net_op.count + 1 /\ net_op'.op = "broadcast"

\* C11: re-broadcasting a block to a node that already holds it is a no-op:
\* the node's store operation returns false, its stored-block set is unchanged,
\* and the network's data-volume and propagation counters are not increased.
C11_RebroadcastIsNoOp ==
    [][(BroadcastStep /\ net_op'.block_id \in stored_blocks[net_op'.node]) =>
          /\ net_op'.result = FALSE
          /\ stored_blocks' = stored_blocks
          /\ network_stats' = network_stats]_vars

C11_RebroadcastRefused ==
    /\ net_op.op = "broadcast"
    /\ ~net_op.result
    /\ net_op.block_id \in stored_blocks[net_op.node]
    /\ neighbors[net_op.node] # <<>>
    /\ network_stats.total_blocks_propagated > 0


\* the nodes reachable from the nodes of frontier over neighbour edges
RECURSIVE ReachableFrom(_, _)
ReachableFrom(nbrs, frontier) ==
    LET next == frontier \cup UNION {Range(nbrs[i]) : i \in frontier}
    IN IF next = frontier THEN frontier ELSE ReachableFrom(nbrs, next)

\* C12 (refuted by the code): after broadcastBlock(b) on a network whose origin
\* node did not already hold b, the origin and every node reachable from it
\* through neighbour edges hold b.
C12_ReachableNodesHoldBlock ==
    (net_op.op = "broadcast" /\ net_op.result) =>
        \A i \in ReachableFrom(neighbors, {net_op.node}) : net_op.block_id \in stored_blocks[i]


\* the neighbour edge set of a topology
EdgeSet(nbrs) == {edge \in (DOMAIN nbrs) \X (DOMAIN nbrs) : edge[2] \in Range(nbrs[edge[1]])}

\* C19 (refuted by the code): heal() after partition(k) restores the edges the
\* partition removed: for every topology and every k < nodeCount the neighbour
\* edge set after partition(k) followed by heal() equals the edge set before
\* the partition (saved_edges).
C19_HealRestoresEdges ==
    net_op.op = "heal_partition" => EdgeSet(neighbors) = EdgeSet(saved_edges)


\* C20: after build(nodeCount, neighborCount) and after any later sequence of
\* partition and heal operations the neighbour relation is symmetric, has no
\* self-loops and no duplicate entries; after build (fresh) every node has at
\* least min(neighborCount, nodeCount - 1) neighbours.
C20_TopologyWellFormed ==
    /\ \A i \in NodeIds(node_count), j \in NodeIds(node_count) :
          j \in Range(neighbors[i]) <=> i \in Range(neighbors[j])
    /\ \A i \in NodeIds(node_count) :
          /\ i \notin Range(neighbors[i])
          /\ Cardinality(Range(neighbors[i])) = Len(neighbors[i])
    /\ net_op.fresh =>
          \A i \in NodeIds(node_count) :
             Len(neighbors[i]) >= Min2(neighbor_count, node_count - 1)

C20_HealedAfterPartition ==
    /\ net_op.op = "heal_partition"
    /\ node_count = MaxNodes
    /\ EdgeSet(saved_edges) # {}
    /\ EdgeSet(neighbors) # EdgeSet(saved_edges)


\* C14: for every block in the chain, in every reachable state, recomputing the
\* hash from the stored fields (block_id, timestamp, previous_hash, miner_id)
\* yields the stored hash.
C14_StoredHashRecomputes ==
    \A k \in 1 .. Len(blocks) :
        blocks[k].hash = CalculateHash(blocks[k].block_id, blocks[k].timestamp,
                                       blocks[k].previous_hash, blocks[k].miner_id)

C14_ProcessedBlockInChain ==
    /\ Len(blocks) >= 2
    /\ blocks[2].previous_hash = blocks[1].hash
    /\ blocks[2].timestamp > blocks[1].timestamp
    /\ blocks[1].transaction_objects # <<>>
    /\ \A k \in 1 .. Len(blocks[1].transaction_objects) :
          blocks[1].transaction_objects[k].status = "confirmed"


\* the transactions of txs paid to wallet w, and their total amount
PaidTo(w, txs) == {k \in 1 .. Len(txs) : txs[k].recipient = w}

RECURSIVE SumAmounts(_, _)
SumAmounts(txs, ks) ==
    IF ks = {} THEN 0
    ELSE LET k == CHOOSE x \in ks : TRUE
         IN txs[k].amount + SumAmounts(txs, ks \ {k})

\* the step appended a block; its transactions are the attached objects
BlockAppended == Len(blocks') = Len(blocks) + 1
AppendedTxs == blocks'[Len(blocks')].transaction_objects

\* every transaction of the appended block is confirmed and credited exactly
\* once to its recipient; no sending-side counter moves
CreditedOnce ==
    /\ \A k \in 1 .. Len(AppendedTxs) : AppendedTxs[k].status = "confirmed"
    /\ DOMAIN wallets' = DOMAIN wallets
    /\ \A w \in DOMAIN wallets :
          LET paid == PaidTo(w, AppendedTxs)
              amount == SumAmounts(AppendedTxs, paid)
          IN /\ wallets'[w].balance = wallets[w].balance + amount
             /\ wallets'[w].total_received = wallets[w].total_received + amount
             /\ wallets'[w].transactions_received =
                   wallets[w].transactions_received + Cardinality(paid)
             /\ wallets'[w].transactions_sent = wallets[w].transactions_sent
             /\ wallets'[w].total_sent = wallets[w].total_sent
             /\ wallets'[w].total_fees = wallets[w].total_fees

\* C17 (as stated): when a block is appended and processed, every transaction
\* it contains whose recipient is a known wallet is credited exactly once
\* (balance and total_received + amount, received counter + 1, status
\* confirmed), and the sender's balance and counters are unchanged, other
\* wallets' payments to the sender aside.
C17_CreditOnlyRecipient ==
    [][BlockAppended =>
          /\ CreditedOnce
          /\ \A k \in 1 .. Len(AppendedTxs) :
                LET sender == AppendedTxs[k].sender
                IN (/\ sender \in DOMAIN wallets
                    /\ \A h \in PaidTo(sender, AppendedTxs) : AppendedTxs[h].sender = sender)
                   => wallets'[sender] = wallets[sender]]_vars

\* C17 (amended): as above, and a sender that is not the recipient of any
\* transaction of the block, its own included, has its balance and counters
\* unchanged.
C17_CreditOnlyRecipientUnlessSelf ==
    [][BlockAppended =>
          /\ CreditedOnce
          /\ \A k \in 1 .. Len(AppendedTxs) :
                LET sender == AppendedTxs[k].sender
                IN (sender \in DOMAIN wallets /\ PaidTo(sender, AppendedTxs) = {})
                   => wallets'[sender] = wallets[sender]]_vars

C17_TwoCreditsOneRecipient ==
    /\ cfg.wallets = 2
    /\ Len(blocks) = 1
    /\ Len(blocks[1].transaction_objects) = 2
    /\ \A k \in 1 .. 2 : /\ blocks[1].transaction_objects[k].sender = WalletId(0)
                         /\ blocks[1].transaction_objects[k].recipient = WalletId(1)
                         /\ blocks[1].transaction_objects[k].status = "confirmed"
    /\ wallets[WalletId(1)].transactions_received = 2
    /\ wallets[WalletId(1)].total_received = 2
    /\ wallets[WalletId(0)].transactions_received = 0


\* the orchestrator's states: Idle before start(), Running from start() to the
\* end of the loop, Stopped once the loop's finally clause has run
Idle == pc = "idle"
Running == pc \in {"starting", "generating", "loop", "mine"}
Stopped == pc = "stopped"

\* C18: the orchestrator follows Idle -> Running -> Stopped; miners are active
\* only while Running; and when the loop has ended for any reason (termination
\* condition, run flag, interrupt or exception) stop() has run: the run flag is
\* false, every miner is inactive and the workload generator is not running.
C18_Lifecycle ==
    /\ [](/\ Idle \/ Running \/ Stopped
          /\ (\E i \in DOMAIN miner_running : miner_running[i]) => Running
          /\ Stopped => /\ ~running
                        /\ \A i \in DOMAIN miner_running : ~miner_running[i]
                        /\ ~wm_running
                        /\ exit_by \in {"terminate", "flag", "interrupt", "exception"})
    /\ [][/\ Idle => (Idle' \/ Running')
          /\ Running => (Running' \/ Stopped')
          /\ Stopped => Stopped']_vars

C18_StoppedByException ==
    /\ Stopped
    /\ exit_by = "exception"
    /\ blocks_mined >= 1
    /\ cfg.miners = MaxMiners


\* caller c's submit_block has its block examined in this step
Examined(c) == spc[c] = "validate" /\ spc'[c] # "validate"

\* the block is one the engine has to reject
InvalidBlock(block) ==
    \/ block.block_id = <<>>
    \/ block.hash = <<>>
    \/ \E k \in 1 .. Len(blocks) : blocks[k].block_id = block.block_id
    \/ block.transaction_count > cfg.blocksize

\* C13: submit of an invalid block (missing block_id or hash, block_id already
\* in the chain, or transaction_count > blocksize) returns false and leaves the
\* chain, last-block time and hash, difficulty, reward and miner statistics
\* unchanged, and the block callback is not invoked.
C13_InvalidBlockRejected ==
    [][\A c \in DOMAIN spc :
          (Examined(c) /\ InvalidBlock(slocal[c].block)) =>
              /\ spc'[c] = "done"
              /\ slocal'[c].result = "false"
              /\ UNCHANGED <<blocks, last_block_time, last_block_hash, current_difficulty,
                             block_reward, miner_blocks_mined, callbacks, wallets,
                             stored_blocks, network_stats>>]_vars

C13_DuplicateRejected ==
    \E c \in DOMAIN spc, d \in DOMAIN spc :
        /\ spc[c] = "done" /\ slocal[c].result = "false"
        /\ spc[d] = "done" /\ slocal[d].result = "true"
        /\ slocal[c].block.block_id = slocal[d].block.block_id
        /\ slocal[c].block.hash # <<>>
        /\ slocal[c].block.transaction_count <= cfg.blocksize
        /\ Len(blocks) = 1
        /\ blocks[1].miner_id = slocal[d].block.miner_id
        /\ callbacks = <<slocal[d].block.block_id>>


\* the callers inside the critical section of submit_block
InCritical == {c \in DOMAIN spc : spc[c] \in {"validate", "append", "callback", "lookup", "return"}}

\* a block that only a block of the same id in the chain can make invalid
WellFormed(block) ==
    block.block_id # <<>> /\ block.hash # <<>> /\ block.transaction_count <= cfg.blocksize

\* C15: when several submit calls race with blocks carrying the same block_id,
\* exactly one of them returns true and the chain contains that block_id
\* exactly once; validation and append of one submit are never interleaved
\* with those of another.
C15_OneWinnerPerBlockId ==
    /\ Cardinality(InCritical) <= 1
    /\ \A k \in 1 .. Len(blocks), h \in 1 .. Len(blocks) :
          blocks[k].block_id = blocks[h].block_id => k = h
    /\ \A c \in DOMAIN spc, d \in DOMAIN spc :
          (/\ c # d
           /\ spc[c] = "done" /\ spc[d] = "done"
           /\ WellFormed(slocal[c].block) /\ WellFormed(slocal[d].block)
           /\ slocal[c].block.block_id = slocal[d].block.block_id)
          => /\ (slocal[c].result = "true") # (slocal[d].result = "true")
             /\ \E k \in 1 .. Len(blocks) : blocks[k].block_id = slocal[c].block.block_id

C15_RaceDecided ==
    \E c \in DOMAIN spc, d \in DOMAIN spc :
        /\ spc[c] = "done" /\ slocal[c].result = "true"
        /\ spc[d] = "done" /\ slocal[d].result = "false"
        /\ WellFormed(slocal[d].block)
        /\ slocal[c].block.block_id = slocal[d].block.block_id
        /\ slocal[c].block.previous_hash = Genesis
        /\ slocal[d].block.previous_hash = Genesis
        /\ slocal[c].block.transaction_objects # <<>>
        /\ blocks[1].miner_id = slocal[c].block.miner_id

\* C16 (refuted by the code): no Mining Engine operation holds the chain lock
\* while waiting on a lock or calling back into lock-guarded engine operations;
\* submit of a valid block with transaction ids but no attached transaction
\* objects completes: no caller waits for the lock it holds itself.
C16_NoWaitHoldingLock ==
    \A c \in DOMAIN spc : ~(spc[c] = "lookup" /\ lock = c)


\* C21: if the registered block callback raises during submit of a valid
\* block, the failure is isolated: submit still returns true (mine_block counts
\* and returns the block), the block remains appended with tip, difficulty and
\* reward updates applied, the lock is released, and the orchestrator loop
\* continues to its next iteration.
C21_CallbackFailureIsolated ==
    /\ [][(pc = "mine" /\ pc' = "raised") =>
             /\ Len(blocks') = Len(blocks) + 1
             /\ SubSeq(blocks', 1, Len(blocks)) = blocks
             /\ last_block_hash' = blocks'[Len(blocks')].hash
             /\ last_block_time' = blocks'[Len(blocks')].timestamp
             /\ block_reward' = IF cfg.halving # 0 /\ Len(blocks') % cfg.halving = 0
                                THEN RDiv(block_reward, RInt(2)) ELSE block_reward
             /\ Len(blocks') % DIFFICULTY_ADJUSTMENT_BLOCKS # 0 =>
                   current_difficulty' = current_difficulty]_vars
    /\ [][pc = "raised" =>
             /\ lock # Free /\ lock' = Free
             /\ UNCHANGED <<blocks, last_block_hash, last_block_time, block_reward,
                            current_difficulty>>
             /\ blocks_mined' = Len(blocks)
             /\ miner_blocks_mined'[lock - 1] = miner_blocks_mined[lock - 1] + 1
             /\ simulated_time' = simulated_time + blocks[Len(blocks)].time_since_last
             /\ running => pc' = "loop"]_vars

C21_LoopContinuedAfterRaise ==
    /\ pc = "loop"
    /\ lock = Free
    /\ Len(blocks) = 2
    /\ blocks_mined = 2
    /\ block_reward = Rat(25, 2)
    /\ stored_blocks[0] = {blocks[2].block_id}
    /\ blocks[1].transaction_objects # <<>>
    /\ blocks[1].transaction_objects[1].status = "pending"


\* C22: for every amount, priority and congestion input and every
\* block-utilization setting, the fee returned by the Fee Model lies within
\* [min_fee, max_fee].
C22_FeeWithinLimits ==
    fee_call.made =>
        \A p \in Priorities : RLe(MIN_FEE, fee_call.fees[p]) /\ RLe(fee_call.fees[p], MAX_FEE)

C22_ClampedAtBothEnds ==
    /\ fee_call.made
    /\ fee_call.amount = RInt(10)
    /\ fee_call.network_congestion = RInt(0 - 1)
    /\ fee_calc.block_utilization = RInt(1)
    /\ fee_call.fees["urgent"] = MIN_FEE

\* C23: for identical amount (>= 0), congestion (>= 0) and block utilization
\* the fee is monotone in the priority class:
\* fee(low) <= fee(normal) <= fee(high) <= fee(urgent).
C23_FeeMonotoneInPriority ==
    (/\ fee_call.made
     /\ RLe(RInt(0), fee_call.amount)
     /\ RLe(RInt(0), fee_call.network_congestion)) =>
        /\ RLe(fee_call.fees["low"], fee_call.fees["normal"])
        /\ RLe(fee_call.fees["normal"], fee_call.fees["high"])
        /\ RLe(fee_call.fees["high"], fee_call.fees["urgent"])

C23_StrictlyIncreasingFees ==
    /\ fee_call.made
    /\ fee_call.amount = RInt(1)
    /\ fee_call.network_congestion = RInt(0)
    /\ RLt(MIN_FEE, fee_call.fees["low"])
    /\ RLt(fee_call.fees["low"], fee_call.fees["normal"])
    /\ RLt(fee_call.fees["normal"], fee_call.fees["high"])
    /\ RLt(fee_call.fees["high"], fee_call.fees["urgent"])
    /\ RLt(fee_call.fees["urgent"], MAX_FEE)


\* C24: simulated time moves only in a loop iteration that passed the
\* termination check, there by exactly the appended block's time_since_last
\* or by the fixed 300 s skip when no block came back; it strictly increases
\* in every such iteration and no other operation moves it.
C24_TimeAdvancesOnlyInIteration ==
    [][/\ simulated_time' # simulated_time => pc = "mine" /\ pc' # "mine"
       /\ (pc = "mine" /\ pc' # "mine" /\ exit_by' \notin {"interrupt", "exception"}) =>
            /\ simulated_time' > simulated_time
            /\ IF Len(blocks') = Len(blocks) + 1
               THEN simulated_time' = simulated_time + blocks'[Len(blocks')].time_since_last
               ELSE blocks' = blocks /\ simulated_time' = simulated_time + SKIP_TIME]_vars

C24_AdvancedByBlockAndSkip ==
    /\ pc = "loop"
    /\ Len(blocks) = 2
    /\ Skips = 1
    /\ simulated_time = blocks[1].time_since_last + blocks[2].time_since_last + SKIP_TIME


\* C25: whenever simulated time has advanced by at least 600 s since the last
\* recomputation of the network conditions, the loop iteration recomputes
\* congestion and block utilization and hands them to the Fee Model: no
\* iteration ends 600 simulated seconds or more after the last recomputation.
C25_RecomputedEvery600SimulatedSeconds ==
    pc = "loop" => simulated_time - update_sim_time < UPDATE_INTERVAL

\* the recomputation as the code does it: after an iteration that ends 600 s
\* of wall-clock time after the last one, the conditions are those of the
\* pool and the last 10 blocks, and the fee calculator holds them
C25_RecomputedOnWallClock ==
    [][(pc = "mine" /\ pc' = "loop") =>
         IF wall_clock - last_network_update >= UPDATE_INTERVAL
         THEN /\ conditions' = NetworkConditions(Len(transaction_pool'), blocks', cfg.blocksize)
              /\ fee_calc'.block_utilization = conditions'.block_utilization
              /\ fee_calc'.congestion_multiplier = RAdd(RInt(1), conditions'.network_congestion)
              /\ last_network_update' = wall_clock
         ELSE UNCHANGED <<conditions, fee_calc, last_network_update>>]_vars

C25_RecomputedWithPendingAndBlocks ==
    /\ pc = "loop"
    /\ last_network_update = UPDATE_INTERVAL
    /\ conditions = [network_congestion |-> Rat(1, 2), block_utilization |-> RInt(1)]
    /\ fee_calc.congestion_multiplier = Rat(3, 2)


\* C26: the difficulty changes only inside an accepted submit that brings the
\* chain length to a positive multiple of 2016; a rejected submit, a submit to
\* any other length and every other operation leave it unchanged.
C26_DifficultyChangesOnlyAtAdjustment ==
    [][current_difficulty' # current_difficulty =>
         /\ Len(blocks') = Len(blocks) + 1
         /\ Len(blocks') > 0
         /\ Len(blocks') % DIFFICULTY_ADJUSTMENT_BLOCKS = 0]_vars

C26_AdjustedAtBlock2016 ==
    /\ Len(blocks) = DIFFICULTY_ADJUSTMENT_BLOCKS + 1
    /\ current_difficulty # cfg.difficulty
    /\ blocks[DIFFICULTY_ADJUSTMENT_BLOCKS].difficulty = cfg.difficulty
    /\ blocks[DIFFICULTY_ADJUSTMENT_BLOCKS + 1].difficulty = current_difficulty
    /\ net_op.op = "submit" /\ net_op.result = FALSE


\* C27: every block a mining attempt produces holds exactly
\* min(blocksize, pool size at the dequeue) transactions, its
\* transaction_count is the length of its id list, and an attempt on an
\* undersized or empty pool still produces a block that is accepted.
C27_BlockHoldsMinOfSizeAndPool ==
    [][/\ (pc = "mine" /\ block_counter' # block_counter) => Len(blocks') = Len(blocks) + 1
       /\ Len(blocks') = Len(blocks) + 1 =>
            LET block == blocks'[Len(blocks')]
            IN /\ block.transaction_count = Min2(cfg.blocksize, Len(transaction_pool))
               /\ block.transaction_count = Len(block.transactions)
               /\ Len(block.transaction_objects) = block.transaction_count
               /\ Len(transaction_pool') = Len(transaction_pool) - block.transaction_count]_vars

C27_UndersizedPoolBlock ==
    /\ cfg.blocksize = 2
    /\ Len(blocks) = 1
    /\ blocks[1].transaction_count = 1
    /\ blocks[1].transactions = <<TxId(0)>>
    /\ transaction_pool = <<>>
    /\ blocks_mined = 1


\* C28: in a run of the single orchestrator loop every block of the chain
\* other than the first has as previous_hash the hash of the block before it,
\* and the first block has "genesis".
C28_HashLinkage ==
    /\ blocks # <<>> => blocks[1].previous_hash = Genesis
    /\ \A k \in 2 .. Len(blocks) : blocks[k].previous_hash = blocks[k - 1].hash
    /\ last_block_hash = IF blocks = <<>> THEN Genesis ELSE blocks[Len(blocks)].hash

C28_SecondBlockLinked ==
    /\ Len(blocks) = 2
    /\ blocks[2].previous_hash = blocks[1].hash
    /\ blocks[2].previous_hash # Genesis
    /\ blocks[1].miner_id # blocks[2].miner_id


\* the places a transaction id is found: positions of the pool, and
\* (block, position) pairs of the chain
PoolPlaces(tx_id) == {k \in 1 .. Len(transaction_pool) : transaction_pool[k].tx_id = tx_id}
ChainPlaces(tx_id) ==
    {bp \in (1 .. Len(blocks)) \X (1 .. MaxBlocksize) :
        /\ bp[2] <= Len(blocks[bp[1]].transactions)
        /\ blocks[bp[1]].transactions[bp[2]] = tx_id}

\* C29: in every quiescent state (no mine_block in flight), whatever the
\* interleaving of enqueues and concurrent mining attempts was, every
\* transaction enqueued so far is either in the pool with status pending or
\* in exactly one block of the chain with status confirmed.
C29_TransactionsConserved ==
    InFlight = {} =>
        \A k \in 0 .. (gen_i - 1) :
            \/ /\ Cardinality(PoolPlaces(TxId(k))) = 1
               /\ ChainPlaces(TxId(k)) = {}
               /\ \A p \in PoolPlaces(TxId(k)) : transaction_pool[p].status = "pending"
            \/ /\ PoolPlaces(TxId(k)) = {}
               /\ Cardinality(ChainPlaces(TxId(k))) = 1
               /\ \A bp \in ChainPlaces(TxId(k)) :
                    /\ blocks[bp[1]].transaction_objects[bp[2]].tx_id = TxId(k)
                    /\ blocks[bp[1]].transaction_objects[bp[2]].status = "confirmed"

C29_SplitBetweenPoolAndChain ==
    /\ InFlight = {}
    /\ gen_i = 4
    /\ Len(blocks) = 2
    /\ blocks[1].miner_id # blocks[2].miner_id
    /\ blocks[1].transaction_count + blocks[2].transaction_count = 3
    /\ Len(transaction_pool) = 1


\* C30: the chain is append-only: no step shortens it, a step (and so a loop
\* iteration) lengthens it by at most one block, and every block already in
\* the chain keeps its index and its content.
C30_ChainAppendOnly ==
    [][/\ Len(blocks') \in {Len(blocks), Len(blocks) + 1}
       /\ SubSeq(blocks', 1, Len(blocks)) = blocks
       /\ Len(blocks') = Len(blocks) + 1 => pc = "mine"]_vars

C30_GrownByTwoIterations ==
    /\ pc = "stopped"
    /\ Len(blocks) = 2
    /\ blocks[1].block_id = BlockId(1)
    /\ blocks[2].block_id = BlockId(2)
    /\ blocks[1].transaction_count = 2
    /\ blocks[2].transaction_count = 2


\* C31: once the run flag is cleared while the loop is running, the loop's
\* next change of position is its exit (so it exits no later than the end of
\* the iteration in progress, and it does exit), a block appended with the
\* flag cleared is the only one and ends the loop, and nothing is appended
\* after the exit.
C31_StopEndsLoop ==
    /\ [][(~running /\ pc \in {"loop", "mine", "selected"} /\ pc' # pc) => pc' = "stopped"]_vars
    /\ [][(~running /\ Len(blocks') # Len(blocks)) =>
             Len(blocks') = Len(blocks) + 1 /\ pc' = "stopped"]_vars
    /\ [][pc = "stopped" => pc' = "stopped" /\ blocks' = blocks]_vars
    /\ (~running /\ pc \in {"loop", "mine", "selected"}) ~> pc = "stopped"

C31_BlockAppendedAfterStop ==
    /\ pc = "stopped"
    /\ exit_by = "flag"
    /\ Len(blocks) = 2
    /\ slocal = <<[miner |-> 0, running |-> FALSE]>>


\* C32: for every chain block after the first, time_since_last equals the
\* block's timestamp minus the timestamp of the previous chain block, also
\* when failed mining attempts (300 s skips) lie between the two blocks.
C32_TimeSinceLastIsTimestampDifference ==
    \A k \in 2..Len(blocks) :
        blocks[k].time_since_last = blocks[k].timestamp - blocks[k - 1].timestamp

\* what the code does keep: the difference of the timestamps is time_since_last
\* plus the skipped time, so the two agree in a run without skips
C32_DifferenceIsMiningTimePlusSkips ==
    /\ \A k \in 2..Len(blocks) :
           blocks[k].timestamp - blocks[k - 1].timestamp >= blocks[k].time_since_last
    /\ Skips = 0 => C32_TimeSinceLastIsTimestampDifference

\* WalletManager.get_total_balance
RECURSIVE SumBalances(_, _)
SumBalances(ws, ids) ==
    IF ids = {} THEN 0
    ELSE LET id == CHOOSE x \in ids : TRUE
         IN ws[id].balance + SumBalances(ws, ids \ {id})

GetTotalBalance(ws) == SumBalances(ws, DOMAIN ws)

\* amounts of a block's transactions whose recipient has a wallet
CreditedAmounts(ws, block) ==
    SumAmounts(block.transaction_objects,
               {k \in 1 .. Len(block.transaction_objects) :
                    block.transaction_objects[k].recipient \in DOMAIN ws})

\* C34: a step that appends and processes a block raises the wallet ledger's
\* total balance by the block's miner_reward in addition to the credited
\* transaction amounts.
C34_CoinbaseCredited ==
    [][BlockAppended =>
         RInt(GetTotalBalance(wallets')) =
             RAdd(RInt(GetTotalBalance(wallets) + CreditedAmounts(wallets, blocks'[Len(blocks')])),
                  blocks'[Len(blocks')].miner_reward)]_vars

\* what the code does keep: the total balance grows by the credited
\* transaction amounts alone, whatever the block's miner_reward
C34_OnlyTransactionsCredited ==
    [][BlockAppended =>
         GetTotalBalance(wallets') =
             GetTotalBalance(wallets) + CreditedAmounts(wallets, blocks'[Len(blocks')])]_vars

\* number of chain blocks whose miner_id is the given miner
BlocksOf(chain, m) == Cardinality({k \in 1 .. Len(chain) : chain[k].miner_id = MinerName(m)})

\* C33: between the orchestrator's steps, every miner's blocks_mined equals
\* the number of chain blocks whose miner_id is that miner.
C33_BlocksMinedMatchesChain ==
    \A m \in DOMAIN miner_blocks_mined : miner_blocks_mined[m] = BlocksOf(blocks, m)

\* what the code does keep: submit_block's update_stats and mine_block each
\* count the block, so the counter is twice the number of the miner's blocks
C33_BlocksMinedCountsTwice ==
    \A m \in DOMAIN miner_blocks_mined : miner_blocks_mined[m] = 2 * BlocksOf(blocks, m)

\* C35: in a run of the single orchestrator the block at chain position k
\* (1-based) carries miner_reward = initialReward / 2^floor((k - 1) / halving)
\* (initialReward when halving is unset), and the reported total coin supply is
\* the sum of miner_reward over the chain's blocks.
C35_RewardByPosition ==
    /\ \A k \in 1 .. Len(blocks) :
           blocks[k].miner_reward =
               IF cfg.halving >= 1
               THEN RDiv(cfg.reward, RInt(Pow2((k - 1) \div cfg.halving)))
               ELSE cfg.reward
    /\ total_coins = SumRewards(blocks)

C35_HalvedBlockInSupply ==
    /\ cfg.halving = 2
    /\ Len(blocks) = 3
    /\ blocks[2].miner_reward = cfg.reward
    /\ blocks[3].miner_reward = RDiv(cfg.reward, RInt(2))
    /\ total_coins = RMul(cfg.reward, Rat(5, 2))

\* C38 (as stated): every block has time_since_last within [1 s, 2 x T] for
\* every target block time T > 0.
C38_WithinOneAndTwiceTarget ==
    \A k \in 1 .. Len(blocks) :
        /\ blocks[k].time_since_last >= 10
        /\ blocks[k].time_since_last <= 2 * cfg.blocktime

\* C38 (amended): every block has time_since_last within [1 s, max(1 s, 2 x T)],
\* hence strictly positive; the upper bound is 2 x T for T >= 0.5 s.
C38_WithinOneAndTwiceTargetOrOne ==
    \A k \in 1 .. Len(blocks) :
        /\ blocks[k].time_since_last >= 10
        /\ blocks[k].time_since_last <= Max2(10, 2 * cfg.blocktime)
        /\ blocks[k].time_since_last > 0

C38_ClampedUpToOneSecond ==
    /\ cfg.blocktime = 4
    /\ Len(blocks) = 1
    /\ blocks[1].time_since_last = 10

\* a wallet operation was called in this step
WalletStep == wallet_call' # wallet_call \/ wallets' # wallets

\* C36: no wallet balance is ever negative under add_balance, subtract_balance
\* and transfer_balance with non-negative amounts and fees; a debit or a
\* transfer that exceeds the balance returns false and leaves the wallets
\* unchanged; a successful transfer preserves the sum of the two balances.
C36_BalancesNeverNegative ==
    /\ [](\A id \in DOMAIN wallets : wallets[id].balance >= 0)
    /\ [][WalletStep =>
            LET c == wallet_call'
            IN /\ (c.op = "subtract" /\ c.amount + c.fee > wallets[c.from].balance)
                      => ~c.result /\ wallets' = wallets
               /\ (c.op = "transfer" /\ c.from \in DOMAIN wallets /\ c.to \in DOMAIN wallets
                       /\ c.amount > wallets[c.from].balance)
                      => ~c.result /\ wallets' = wallets
               /\ (c.op = "transfer" /\ c.result)
                      => wallets'[c.from].balance + wallets'[c.to].balance
                             = wallets[c.from].balance + wallets[c.to].balance]_vars

C36_TransferRefusedAfterTransfer ==
    /\ wallets[WalletId(0)].balance = 0
    /\ wallets[WalletId(0)].transactions_sent = 1
    /\ wallets[WalletId(1)].balance = 10
    /\ wallet_call = [op |-> "transfer", from |-> WalletId(1), to |-> WalletId(0),
                      amount |-> 11, fee |-> 0, result |-> FALSE]

\* C37: the workload generation hands its transactions to the callback once
\* each and in index order: while it runs the pool holds tx_0 .. tx_(i-1) in
\* that order, the i-th from wallet_(i div tpw) to
\* wallet_((i div tpw + 1) mod wallets); each step adds the next one alone; a
\* generation that was not stopped ends with exactly wallets x tpw of them.
C37_WorkloadGenerated ==
    /\ [](pc = "generating" =>
            /\ Len(transaction_pool) = gen_i
            /\ gen_i <= cfg.wallets * cfg.transactions
            /\ \A k \in 1 .. Len(transaction_pool) :
                 LET i == k - 1
                 IN /\ transaction_pool[k].tx_id = TxId(i)
                    /\ transaction_pool[k].sender = WalletId(i \div cfg.transactions)
                    /\ transaction_pool[k].recipient =
                           WalletId((i \div cfg.transactions + 1) % cfg.wallets)
            /\ \A k, l \in 1 .. Len(transaction_pool) :
                 k # l => transaction_pool[k].tx_id # transaction_pool[l].tx_id)
    /\ [][(pc = "generating" /\ transaction_pool' # transaction_pool) =>
             /\ Len(transaction_pool') = Len(transaction_pool) + 1
             /\ SubSeq(transaction_pool', 1, Len(transaction_pool)) = transaction_pool
             /\ transaction_pool'[Len(transaction_pool')].tx_id = TxId(gen_i)]_vars
    /\ [][(pc = "generating" /\ wm_running /\ pc' # pc) =>
             Len(transaction_pool) = cfg.wallets * cfg.transactions]_vars

C37_FullWorkloadInPool ==
    /\ pc = "generating"
    /\ wm_running
    /\ cfg.wallets = MaxWallets
    /\ cfg.transactions = MaxTxPerWallet
    /\ gen_i = MaxWallets * MaxTxPerWallet
    /\ transaction_pool[MaxWallets * MaxTxPerWallet].sender = WalletId(MaxWallets - 1)
    /\ transaction_pool[MaxWallets * MaxTxPerWallet].recipient = WalletId(0)

\* C39: in every reachable state, whatever the sequence of enqueue operations
\* and of start() and stop() calls on one orchestrator, no two transactions of
\* the pending pool have the same tx_id.
C39_PoolIdsDistinct ==
    \A k, l \in 1 .. Len(transaction_pool) :
        k # l => transaction_pool[k].tx_id # transaction_pool[l].tx_id

\* what the code does keep: the ids are distinct up to the first end of the loop
C39_PoolIdsDistinctInFirstRun ==
    final_lines = 0 => C39_PoolIdsDistinct

=============================================================================
